---- MODULE Spec2Model ----
(***************************************************************************)
(* Bring-up state machine of the Lontium LT9211C MIPI-to-LVDS bridge       *)
(* driver (drivers/gpu/drm/bridge/lontium-lt9211c-eideal.c).               *)
(*                                                                         *)
(* The driver state is the lt9211c context (state, probed input timing,    *)
(* resolved video timing), the function-static retry counter of            *)
(* lt9211c_module_config, and the delayed work item that runs the handler. *)
(* One action models one case block of the handler's switch; a block that  *)
(* does not return falls through to the next one in the same invocation.   *)
(* Values read from the chip are inputs drawn from small sets.             *)
(***************************************************************************)
EXTENDS Integers, Sequences, FiniteSets, TLC

VARIABLES
    state,      \* ctx->state
    counter,    \* static int counter of lt9211c_module_config
    rx,         \* ctx->mipi_rx_video_timing
    vt,         \* ctx->lt9211c_video_timing
    queued,     \* entries of ctx->delayed_work on the system workqueue
    pendingBit, \* WORK_STRUCT_PENDING of ctx->delayed_work
    pc,         \* per worker thread: case block it executes next, or Idle
    orphan,     \* running invocations the work item no longer refers to
    bridge_on,  \* the DRM core has enabled the bridge and not disabled it
    life,       \* "attached", "detached" or "removed"
    nEnable,    \* number of lt9211c_bridge_enable calls so far
    settled,    \* environment: from now on every stage attempt succeeds
    visited,    \* per worker: case blocks executed by its current/last invocation
    nsched,     \* per worker: schedule_delayed_work calls of that invocation
    failedAt,   \* per worker: the case block (if any) that made that invocation return early
    lastFmt,    \* format code probed by the latest InputTimingConfig attempt
    lastVidOk,  \* whether the latest InputTimingConfig attempt succeeded
    hist,       \* record of what the stages of the bring-up did (see InitHist)
    videomode,  \* ctx->videomode
    enumerated, \* <<>> until modes are enumerated, then <<what lt9211c_get_modes gave>>
    other,      \* ctx->state of a second bridge device driven by the same driver
    scope,      \* which study the behaviour belongs to: "bringup" or "lifecycle"
    call,       \* stand-alone run of one routine: its name and arguments
    result      \* <<>> until that routine has run, then <<its result>>

vars == <<state, counter, rx, vt, queued, pendingBit, pc, orphan, bridge_on, life,
          nEnable, settled, visited, nsched, failedAt, lastFmt, lastVidOk, hist,
          videomode, enumerated, other, scope, call, result>>

----------------------------------------------------------------------------
(* Bounds of the model *)

MaxWorkers == 2
MaxEnable == 2

Workers == 1..MaxWorkers

----------------------------------------------------------------------------
(* enum lt9211c_state *)

LT9211C_STATE_PREPARE == 0
LT9211C_STATE_CHIPRX_VIDTIMING_CONFIG == 1
LT9211C_STATE_CHIPRX_PLL_CONFIG == 2
LT9211C_STATE_CHIPTX_CONFIG_VIDEO == 3
LT9211C_STATE_CHIPTX_VIDEO_OUT == 4

Idle == -1     \* the worker is not inside lt9211c_module_config

(* errno values returned by the driver and by the register transport *)
EPROBE_DEFER == 517
ENOPARAM == 519
EIO == 5

U8(x) == x % 256
U16(x) == x % 65536

----------------------------------------------------------------------------
(* lt9211c_support_timing[] *)

Mode(hfp, hs, hbp, ha, ht, vfp, vs, vbp, va, vtot, fr) ==
    [hfront_porch |-> hfp, hsync_len |-> hs, hback_porch |-> hbp,
     hactive |-> ha, htotal |-> ht,
     vfront_porch |-> vfp, vsync_len |-> vs, vback_porch |-> vbp,
     vactive |-> va, vtotal |-> vtot, framerate |-> fr]

lt9211c_support_timing ==
    << Mode(24,   96,  40,  640,  800,  33, 2,  10, 480,  525,  60),
       Mode(16,   62,  60,  720,  858,  9,  6,  30, 480,  525,  60),
       Mode(12,   64,  88,  720,  864,  5,  5,  39, 576,  625,  50),
       Mode(48,   128, 88,  800,  1056, 1,  4,  23, 600,  628,  60),
       Mode(110,  40,  220, 1280, 1650, 5,  5,  20, 720,  750,  30),
       Mode(440,  40,  220, 1280, 1980, 5,  5,  20, 720,  750,  50),
       Mode(110,  40,  220, 1280, 1650, 5,  5,  20, 720,  750,  60),
       Mode(24,   136, 160, 1024, 1344, 3,  6,  29, 768,  806,  60),
       Mode(26,   110, 110, 1366, 1592, 13, 6,  13, 768,  800,  60),
       Mode(110,  40,  220, 1280, 1650, 5,  5,  20, 720,  750,  30),
       Mode(48,   32,  80,  1920, 2080, 5,  5,  20, 720,  750,  60),
       Mode(48,   112, 248, 1280, 1688, 1,  3,  38, 1024, 1066, 60),
       Mode(88,   44,  148, 1920, 2200, 4,  5,  36, 1080, 1125, 30),
       Mode(88,   44,  148, 1920, 2200, 4,  5,  36, 1080, 1125, 60),
       Mode(88,   44,  148, 1920, 2200, 4,  5,  36, 1080, 1125, 90),
       Mode(64,   192, 304, 1600, 2160, 1,  3,  46, 1200, 1250, 60),
       Mode(48,   32,  80,  1920, 2080, 3,  6,  26, 1200, 1235, 60),
       Mode(32,   48,  80,  2048, 2208, 6,  3,  28, 1280, 1317, 60),
       Mode(50,   48,  80,  2304, 2482, 6,  3,  32, 1440, 1481, 60),
       Mode(48,   32,  80,  2560, 2720, 3,  5,  33, 1440, 1481, 60),
       Mode(1276, 88,  296, 3840, 5500, 8,  10, 72, 2160, 2250, 24) >>

support_timing_array_size == Len(lt9211c_support_timing)

(* struct lt9211c_video_timing after memset / kzalloc *)
ZeroVideoTiming ==
    [hfront_porch |-> 0, hsync_len |-> 0, hback_porch |-> 0, hactive |-> 0,
     htotal |-> 0, vfront_porch |-> 0, vsync_len |-> 0, vback_porch |-> 0,
     vactive |-> 0, vtotal |-> 0, framerate |-> 0, pclk_khz |-> 0]

(* struct lt9211c_mipi_rx_video_timing after memset / kzalloc *)
ZeroRxTiming == [wc |-> 0, hact |-> 0, vact |-> 0, fmt |-> 0]

----------------------------------------------------------------------------
(* Timing probe *)

(* lt9211c_mipi_rx_hact_get: active pixels from the word count, by format.
   The word count is promoted to int, the result is stored in a u16. *)
lt9211c_mipi_rx_hact_get(wc, fmt) ==
    CASE fmt \in {1, 14} -> U16((wc * 5) \div 2)
      [] fmt = 2         -> U16(wc \div 3)
      [] fmt = 3         -> U16(wc \div 2)
      [] fmt = 4         -> U16((wc * 15) \div 4)
      [] fmt = 5         -> U16((wc * 9) \div 2)
      [] fmt = 6         -> U16(wc \div 3)
      [] fmt = 10        -> U16(wc \div 3)
      [] fmt = 7         -> U16(wc \div 2)
      [] fmt \in {8, 9}  -> U16((wc * 9) \div 4)
      [] fmt = 11        -> U16(wc \div 1)
      [] fmt = 12        -> U16((wc * 5) \div 4)
      [] fmt = 13        -> U16((wc * 3) \div 2)
      [] OTHER           -> U16(wc \div 3)

(* The probed record as lt9211c_mipi_rx_hact_get leaves it. *)
ProbedRx(wc, vact, fmt) ==
    [wc |-> wc, hact |-> lt9211c_mipi_rx_hact_get(wc, fmt), vact |-> vact, fmt |-> fmt]

(* lt9211c_mipi_rx_video_timing_get: 0, or -EPROBE_DEFER on "no video get". *)
lt9211c_mipi_rx_video_timing_get(r) ==
    IF r.hact < 400 \/ r.vact < 400 THEN -EPROBE_DEFER ELSE 0

(* The u32 frametime lt9211c_video_check_framerate_get assembles from the
   three one-byte reads of the frame-time counter.  Each read stores one
   byte into the u32 data, whose three upper bytes are never initialised;
   junk is what they happen to hold (0 when the stack slot is clear), and
   it is added at both shifts. *)
frametime_assembled(counter24, junk) == counter24 + junk * (65536 + 256)

(* lt9211c_video_check_framerate_get for a non-zero 24-bit frame time. *)
lt9211c_video_check_framerate_get(frametime) ==
    U8((((25000000 * 2) \div frametime) + 1) \div 2)

----------------------------------------------------------------------------
(* Mode matcher *)

(* The two "continue" conditions of the scan loop for table entry index. *)
ResolutionNotMatch(r, index) ==
    \/ r.hact # lt9211c_support_timing[index].hactive
    \/ r.vact # lt9211c_support_timing[index].vactive

(* Variant: the rate is not compared. *)
FrameRateNotMatch_Never(current_framerate, index) == FALSE

(* Variant: the rate window taken exclusive of its ends. *)
FrameRateNotMatch_Exclusive(current_framerate, index) ==
    \/ current_framerate <= lt9211c_support_timing[index].framerate - 3
    \/ current_framerate >= lt9211c_support_timing[index].framerate + 3

FrameRateNotMatch(current_framerate, index) ==
    \/ current_framerate < lt9211c_support_timing[index].framerate - 3
    \/ current_framerate > lt9211c_support_timing[index].framerate + 3

(* The while loop of lt9211c_mipi_rx_video_timing_sel: the index it stops at,
   or 0 when the table is exhausted (indices are 1-based here). *)
RECURSIVE TimingScan(_, _, _)
TimingScan(r, current_framerate, index) ==
    IF index > support_timing_array_size THEN 0
    ELSE IF ResolutionNotMatch(r, index) THEN TimingScan(r, current_framerate, index + 1)
    ELSE IF FrameRateNotMatch(current_framerate, index)
         THEN TimingScan(r, current_framerate, index + 1)
    ELSE index

(* Variant: the pixel clock computed from the measured frame rate. *)
ResolvedTiming_Measured(index, current_framerate) ==
    LET t == lt9211c_support_timing[index] IN
    [hfront_porch |-> t.hfront_porch, hsync_len |-> t.hsync_len,
     hback_porch |-> t.hback_porch, hactive |-> t.hactive, htotal |-> t.htotal,
     vfront_porch |-> t.vfront_porch, vsync_len |-> t.vsync_len,
     vback_porch |-> t.vback_porch, vactive |-> t.vactive, vtotal |-> t.vtotal,
     framerate |-> current_framerate,
     pclk_khz |-> (t.htotal * t.vtotal * current_framerate) \div 1000]

(* ctx->lt9211c_video_timing as filled in for the matched entry.  The u32
   product htotal * vtotal * framerate is exact: for every table entry it is
   at most 5500 * 2250 * 24 = 297000000, below 2^31. *)
ResolvedTiming(index, current_framerate) ==
    LET t == lt9211c_support_timing[index] IN
    [hfront_porch |-> t.hfront_porch, hsync_len |-> t.hsync_len,
     hback_porch |-> t.hback_porch, hactive |-> t.hactive, htotal |-> t.htotal,
     vfront_porch |-> t.vfront_porch, vsync_len |-> t.vsync_len,
     vback_porch |-> t.vback_porch, vactive |-> t.vactive, vtotal |-> t.vtotal,
     framerate |-> current_framerate,
     pclk_khz |-> (t.htotal * t.vtotal * t.framerate) \div 1000]

(* Variant: the resolved timing is cleared before the scan. *)
lt9211c_mipi_rx_video_timing_sel_ClearsFirst(r, current_framerate, old_vt, writeErr) ==
    LET index == TimingScan(r, current_framerate, 1) IN
    IF index = 0
    THEN [index |-> 0, ret |-> -ENOPARAM, vt |-> ZeroVideoTiming,
          calls |-> <<"lt9211c_video_check_framerate_get">>]
    ELSE [index |-> index, ret |-> IF writeErr THEN -EIO ELSE 0,
          vt |-> ResolvedTiming(index, current_framerate),
          calls |-> <<"lt9211c_video_check_framerate_get",
                      "lt9211c_mipi_rx_video_timing_set">>]

(* lt9211c_mipi_rx_video_timing_sel: [index, ret, vt].  On a match ret is the
   status of the last register write of lt9211c_mipi_rx_video_timing_set
   (writeErr: that write reported a transport error); otherwise -ENOPARAM
   and the resolved timing is left as it was. *)
lt9211c_mipi_rx_video_timing_sel(r, current_framerate, old_vt, writeErr) ==
    LET index == TimingScan(r, current_framerate, 1) IN
    IF index = 0
    THEN [index |-> 0, ret |-> -ENOPARAM, vt |-> old_vt,
          calls |-> <<"lt9211c_video_check_framerate_get">>]
    ELSE [index |-> index, ret |-> IF writeErr THEN -EIO ELSE 0,
          vt |-> ResolvedTiming(index, current_framerate),
          calls |-> <<"lt9211c_video_check_framerate_get",
                      "lt9211c_mipi_rx_video_timing_set">>]

(* The matcher run by lt9211c_mipi_rx_video_timing_config after the probe. *)
TimingSelAfterGet(r, frametime, old_vt, writeErr) ==
    LET sel == lt9211c_mipi_rx_video_timing_sel(
                   r, lt9211c_video_check_framerate_get(frametime), old_vt, writeErr)
    IN [sel EXCEPT !.calls = <<"lt9211c_mipi_rx_video_timing_get">> \o @]

(* Variant: the matcher is run whatever the probe returned. *)
lt9211c_mipi_rx_video_timing_config_NoEarlyReturn(r, frametime, old_vt, writeErr) ==
    TimingSelAfterGet(r, frametime, old_vt, writeErr)

(* lt9211c_mipi_rx_video_timing_config: probe, then (only if the probe
   succeeded) the matcher.  calls lists the routines it ran. *)
lt9211c_mipi_rx_video_timing_config(r, frametime, old_vt, writeErr) ==
    IF lt9211c_mipi_rx_video_timing_get(r) < 0
    THEN [index |-> 0, ret |-> lt9211c_mipi_rx_video_timing_get(r), vt |-> old_vt,
          calls |-> <<"lt9211c_mipi_rx_video_timing_get">>]
    ELSE TimingSelAfterGet(r, frametime, old_vt, writeErr)

----------------------------------------------------------------------------
(* Clock recovery engine *)

(* Variant: the bands exclude their lower bounds. *)
dessc_pll_pixel_clock_div_Exclusive(pclk_khz) ==
    IF pclk_khz > 352000 THEN 2
    ELSE IF pclk_khz > 176000 THEN 2
    ELSE IF pclk_khz > 88000 THEN 4
    ELSE IF pclk_khz > 44000 THEN 8
    ELSE IF pclk_khz > 22000 THEN 16
    ELSE 16

(* The divider lt9211c_mipi_rx_dessc_pll_set picks for a pixel clock. *)
dessc_pll_pixel_clock_div(pclk_khz) ==
    IF pclk_khz >= 352000 THEN 2
    ELSE IF pclk_khz >= 176000 THEN 2
    ELSE IF pclk_khz >= 88000 THEN 4
    ELSE IF pclk_khz >= 44000 THEN 8
    ELSE IF pclk_khz >= 22000 THEN 16
    ELSE 16

(* Whether lt9211c_mipi_rx_dessc_pll_set writes the low-frequency
   pixel-clock divide-by-2 select: only the last branch does. *)
dessc_pll_lowf_pixck_divsel(pclk_khz) ==
    IF pclk_khz >= 352000 THEN FALSE
    ELSE IF pclk_khz >= 176000 THEN FALSE
    ELSE IF pclk_khz >= 88000 THEN FALSE
    ELSE IF pclk_khz >= 44000 THEN FALSE
    ELSE IF pclk_khz >= 22000 THEN FALSE
    ELSE TRUE

(* Variant: the divider is 2 for every pixel clock. *)
lt9211c_mipi_rx_dessc_pll_set_Div2(pclk_khz) ==
    LET derived == (pclk_khz * 2) \div 25
        m == derived \div 1000
    IN [div |-> 2, pcr_m |-> m, pcr_k |-> (derived % 1000) * 16384,
        pcr_up_limit |-> m + 1, pcr_down_limit |-> m - 1]

(* Variant: the product is not divided by the 25 MHz reference. *)
lt9211c_mipi_rx_dessc_pll_set_NoRefDivide(pclk_khz) ==
    LET div == dessc_pll_pixel_clock_div(pclk_khz)
        derived == pclk_khz * div
        m == derived \div 1000
    IN [div |-> div, pcr_m |-> m, pcr_k |-> (derived % 1000) * 16384,
        pcr_up_limit |-> m + 1, pcr_down_limit |-> m - 1]

(* The pcr_setting computed by lt9211c_mipi_rx_dessc_pll_set (u32
   arithmetic).  The pixel clock is the one the matcher resolved, at least
   25200 kHz, so pcr_m is at least 14 and neither the product nor
   pcr_m - 1 wraps. *)
lt9211c_mipi_rx_dessc_pll_set(pclk_khz) ==
    LET div == dessc_pll_pixel_clock_div(pclk_khz)
        derived == (pclk_khz * div) \div 25
        m == derived \div 1000
    IN [div |-> div, pcr_m |-> m, pcr_k |-> (derived % 1000) * 16384,
        pcr_up_limit |-> m + 1, pcr_down_limit |-> m - 1]

(* The polling loop of lt9211c_mipi_rx_pcr_calibration.  stableAt is the
   number of the first read of register 0x87 that shows both stable bits
   (0: no read ever does); readErr: that read reported a transport error.
   Yields the return value and the number of status polls made. *)
RECURSIVE PcrPoll(_, _, _, _)
PcrPoll(pcr_cal_count, polls, stableAt, readErr) ==
    IF stableAt = polls + 1
    THEN [ret |-> IF readErr THEN -EIO ELSE 0, polls |-> polls + 1]
    ELSE IF pcr_cal_count > 50
    THEN [ret |-> -ENOPARAM, polls |-> polls + 1]
    ELSE PcrPoll(pcr_cal_count + 1, polls + 1, stableAt, readErr)

(* Variant: the poll count starts at one. *)
lt9211c_mipi_rx_pcr_calibration_CountFromOne(stableAt, readErr) ==
    PcrPoll(1, 0, stableAt, readErr)

lt9211c_mipi_rx_pcr_calibration(stableAt, readErr) ==
    PcrPoll(0, 0, stableAt, readErr)

(* lt9211c_system_video_chk_src_sel: 0, or -EPROBE_DEFER when its register
   sequence write reported a transport error. *)
lt9211c_system_video_chk_src_sel(writeErr) ==
    IF writeErr THEN -EPROBE_DEFER ELSE 0

(* Whether the calibration run inside lt9211c_mipi_rx_pll_config succeeded. *)
PcrCalibrated(stableAt, err) ==
    lt9211c_mipi_rx_pcr_calibration(stableAt, err = "pcr_read").ret >= 0

(* Variant: the result of the calibration is not looked at. *)
lt9211c_mipi_rx_pll_config_IgnoreCalibration(stableAt, err) ==
    lt9211c_system_video_chk_src_sel(err = "chk_src")

(* lt9211c_mipi_rx_pll_config.  err names the one register operation, if
   any, that reported a transport error: "pcr_read" (the last status poll)
   or "chk_src" (the video-check source selection), else "none". *)
lt9211c_mipi_rx_pll_config(stableAt, err) ==
    LET cal == lt9211c_mipi_rx_pcr_calibration(stableAt, err = "pcr_read") IN
    IF cal.ret < 0 THEN cal.ret
    ELSE lt9211c_system_video_chk_src_sel(err = "chk_src")

(* The while loop on lt9211c_mipi_rx_video_check_stable in the
   InputPllConfig block, entered with counter = c.  The first failCount
   checks report unstable.  Yields the counter and the checks made. *)
(* Variant: the loop without its break on counter > 50. *)
StableSpin_NoBreak(c, checks, failCount) ==
    [counter |-> c + failCount, checks |-> checks + failCount + 1, stable |-> TRUE]

RECURSIVE StableSpin(_, _, _)
StableSpin(c, checks, failCount) ==
    IF checks >= failCount
    THEN [counter |-> c, checks |-> checks + 1, stable |-> TRUE]
    ELSE IF c + 1 > 50
    THEN [counter |-> c + 1, checks |-> checks + 1, stable |-> FALSE]
    ELSE StableSpin(c + 1, checks + 1, failCount)

(* Variant: a spin that saw no stable video sends the machine back to
   timing acquisition. *)
AfterSpinState_Gated(spin) ==
    IF spin.stable THEN LT9211C_STATE_CHIPTX_CONFIG_VIDEO
    ELSE LT9211C_STATE_CHIPRX_VIDTIMING_CONFIG

(* The state stored after the spin, whatever the spin found. *)
AfterSpinState(spin) == LT9211C_STATE_CHIPTX_CONFIG_VIDEO

----------------------------------------------------------------------------
(* Output PLL engine *)

(* lvds_tx_phy_clk: the u32 product pclk_khz * 7 halved.  The pixel clock
   is the 20-bit reading of the frequency meter, so the product stays
   below 2^32. *)
lvds_tx_phy_clk(pclk_khz) == (pclk_khz * 7) \div 2

(* Variant: the 320000 band starts one above its bound. *)
lvds_tx_pre_div_Shifted(pclk_khz) ==
    IF pclk_khz < 20000 THEN 1
    ELSE IF pclk_khz < 40000 THEN 1
    ELSE IF pclk_khz < 80000 THEN 2
    ELSE IF pclk_khz < 160000 THEN 4
    ELSE IF pclk_khz <= 320000 THEN 8
    ELSE 16

(* txpll prediv sel *)
lvds_tx_pre_div(pclk_khz) ==
    IF pclk_khz < 20000 THEN 1
    ELSE IF pclk_khz < 40000 THEN 1
    ELSE IF pclk_khz < 80000 THEN 2
    ELSE IF pclk_khz < 160000 THEN 4
    ELSE IF pclk_khz < 320000 THEN 8
    ELSE 16

(* Variant: the bands are taken on the pixel clock. *)
lvds_tx_serial_clk_div_OnPixelClock(phy_clk) ==
    IF (phy_clk * 2) \div 7 >= 640000 THEN 1
    ELSE IF (phy_clk * 2) \div 7 >= 320000 THEN 2
    ELSE IF (phy_clk * 2) \div 7 >= 160000 THEN 4
    ELSE IF (phy_clk * 2) \div 7 >= 80000 THEN 8
    ELSE 16

(* Variant: the divider of the lowest band whatever the phy-clock. *)
lvds_tx_serial_clk_div_Always16(phy_clk) == 16

(* txpll serick_divsel *)
lvds_tx_serial_clk_div(phy_clk) ==
    IF phy_clk >= 640000 THEN 1
    ELSE IF phy_clk >= 320000 THEN 2
    ELSE IF phy_clk >= 160000 THEN 4
    ELSE IF phy_clk >= 80000 THEN 8
    ELSE 16

(* Variant: the buckets exclude their upper bounds. *)
lvds_tx_pixdiv_sel_Exclusive(pixel_clk_div) ==
    IF pixel_clk_div < 1 * 2 THEN 0
    ELSE IF pixel_clk_div < 2 * 2 THEN 1
    ELSE IF pixel_clk_div < 4 * 2 THEN 2
    ELSE IF pixel_clk_div < 8 * 2 THEN 3
    ELSE 3

(* txpll_pixdiv_sel: the value written to register 0x33 for a pixel clock
   of 150000 kHz or more: 0 selects /7, 1 /14, 2 /28, 3 /56. *)
lvds_tx_pixdiv_sel(pixel_clk_div) ==
    IF pixel_clk_div <= 1 * 2 THEN 0
    ELSE IF pixel_clk_div <= 2 * 2 THEN 1
    ELSE IF pixel_clk_div <= 4 * 2 THEN 2
    ELSE IF pixel_clk_div <= 8 * 2 THEN 3
    ELSE 3

(* lt9211c_lvds_tx_pll_config: the dividers computed for the pixel clock.
   pixel_clk_div and div_set pass through a u8; reg33: the value written
   to register 0x33; div0: the divisor pclk_khz / pre_div of div_set is
   zero. *)
lt9211c_lvds_tx_pll_config(pclk_khz) ==
    LET phy == lvds_tx_phy_clk(pclk_khz)
        pre == lvds_tx_pre_div(pclk_khz)
        ser == lvds_tx_serial_clk_div(phy)
        div0 == pclk_khz \div pre = 0
    IN [lvds_tx_phy_clk |-> phy, pre_div |-> pre, serial_clk_div |-> ser,
        pixel_clk_div |-> IF pclk_khz < 150000 THEN 7
                          ELSE ((phy * ser * 2) \div (pclk_khz * 7)) % 256,
        reg33 |-> IF pclk_khz < 150000 THEN 4
                  ELSE lvds_tx_pixdiv_sel(((phy * ser * 2) \div (pclk_khz * 7)) % 256),
        div0 |-> div0,
        div_set |-> IF div0 THEN 0
                    ELSE ((phy * ser) \div (pclk_khz \div pre)) % 256]

(* The calibration loop of lt9211c_lvds_tx_pll_calibration.  doneAt is the
   number of the first round whose read shows the done flag (0: none).
   Yields the number of calibration-trigger pulses issued. *)
RECURSIVE TxPllRounds(_, _, _)
TxPllRounds(count, triggers, doneAt) ==
    IF count <= 3
    THEN IF doneAt = triggers + 1 THEN triggers + 1
         ELSE TxPllRounds(count + 1, triggers + 1, doneAt)
    ELSE triggers

(* Variant: the loop does not stop on the done flag. *)
lt9211c_lvds_tx_pll_calibration_NoBreak(doneAt, lock) ==
    [ret |-> IF lock THEN 0 ELSE -ENOPARAM, triggers |-> 4]

(* Variant: the done flag decides the result. *)
lt9211c_lvds_tx_pll_calibration_DoneDecides(doneAt, lock) ==
    [ret |-> IF doneAt \in 1..4 THEN 0 ELSE -ENOPARAM,
     triggers |-> TxPllRounds(0, 0, doneAt)]

(* lt9211c_lvds_tx_pll_calibration: the result is decided by the lock bit
   read after the loop. *)
lt9211c_lvds_tx_pll_calibration(doneAt, lock) ==
    [ret |-> IF lock THEN 0 ELSE -ENOPARAM, triggers |-> TxPllRounds(0, 0, doneAt)]

(* lt9211c_lvds_tx_config_video: the measured pixel clock replaces the
   resolved one, then the PLL is configured and calibrated. *)
lt9211c_lvds_tx_config_video(old_vt, measured, doneAt, lock) ==
    [ret |-> lt9211c_lvds_tx_pll_calibration(doneAt, lock).ret,
     vt |-> [old_vt EXCEPT !.pclk_khz = measured]]

----------------------------------------------------------------------------
(* Registers of the chip *)

(* The chip as the register routines see it: the page selected through
   register 0xff, and the values written so far, by page and register. *)
Chip(page) == [page |-> page, regs |-> [pr \in {} |-> 0]]

(* regmap_write / one entry of regmap_multi_reg_write. *)
regmap_write(chip, reg, val) ==
    IF reg = \hff
    THEN [chip EXCEPT !.page = val]
    ELSE [chip EXCEPT !.regs = (<<chip.page, reg>> :> val) @@ @]

(* regmap_multi_reg_write: the entries are written in order.  Entry i goes
   to the page the latest page select before it left in force (the page of
   the chip at entry when there is none); a register written more than once
   keeps the value of its last write. *)
regmap_multi_reg_write(chip, regs) ==
    LET Selects(i) == {j \in 1..(i - 1) : regs[j][1] = \hff}
        PageAt(i) == IF Selects(i) = {} THEN chip.page
                     ELSE regs[CHOOSE j \in Selects(i) :
                                  \A k \in Selects(i) : k <= j][2]
        Writes == {i \in 1..Len(regs) : regs[i][1] # \hff}
        Key(i) == <<PageAt(i), regs[i][1]>>
        LastWrite(pr) == CHOOSE i \in Writes :
                            /\ Key(i) = pr
                            /\ \A k \in Writes : Key(k) = pr => k <= i
    IN [page |-> PageAt(Len(regs) + 1),
        regs |-> [pr \in {Key(i) : i \in Writes} |-> regs[LastWrite(pr)][2]]
                    @@ chip.regs]

(* Whether a register of a page has been written, and the value it holds. *)
Written(chip, page, reg) == <<page, reg>> \in DOMAIN chip.regs
Holds(chip, page, reg) == chip.regs[<<page, reg>>]

(* regmap_bulk_read of one register the routine wrote before, on the page
   selected. *)
regmap_bulk_read(chip, reg) == Holds(chip, chip.page, reg)

(* lt9211c_mipi_rx_dessc_pll_sdm_cal *)
lt9211c_mipi_rx_dessc_pll_sdm_cal(chip, pcr_setting) ==
    LET c0 == regmap_multi_reg_write(chip, << <<\hff, \hd0>>, <<\h08, \h00>> >>)
        m8 == pcr_setting.pcr_m % 256
        c1 == regmap_write(c0, \h26, IF m8 >= 128 THEN m8 ELSE 128 + m8)
        c2 == regmap_write(c1, \h2d, pcr_setting.pcr_up_limit)
        c3 == regmap_write(c2, \h31, pcr_setting.pcr_down_limit)
        c4 == regmap_write(c3, \h27, (pcr_setting.pcr_k \div 65536) % 256)
        c5 == regmap_write(c4, \h28, (pcr_setting.pcr_k \div 256) % 256)
        c6 == regmap_write(c5, \h29, pcr_setting.pcr_k % 256)
    IN regmap_write(c6, \h26, regmap_bulk_read(c6, \h26) % 128)

(* The register writes of lt9211c_mipi_rx_dessc_pll_set. *)
dessc_pll_set_regs(chip, pclk_khz) ==
    LET c0 == regmap_multi_reg_write(chip,
                  << <<\hff, \h82>>, <<\h26, \h20>>, <<\h27, \h40>> >>)
        c1 == regmap_write(c0, \h2f,
                  IF pclk_khz >= 176000 THEN \h04
                  ELSE IF pclk_khz >= 88000 THEN \h05
                  ELSE IF pclk_khz >= 44000 THEN \h06
                  ELSE \h07)
        c2 == IF dessc_pll_lowf_pixck_divsel(pclk_khz)
              THEN regmap_write(c1, \h2c, \h01) ELSE c1
        s == lt9211c_mipi_rx_dessc_pll_set(pclk_khz)
        c3 == lt9211c_mipi_rx_dessc_pll_sdm_cal(c2, s)
        c4 == regmap_multi_reg_write(c3, << <<\hff, \h81>>, <<\h03, \hfe>> >>)
    IN regmap_write(c4, \h03, \hff)

(* pre_reg_cfg of lt9211c_mipi_rx_pcr_calibration *)
pcr_pre_reg_cfg ==
    << <<\hff, \hd0>>, <<\h0c, \h60>>, <<\h1c, \h60>>, <<\h24, \h70>>,
       <<\h2d, \h30>>, <<\h31, \h0a>>,
       <<\h25, \hf0>>, <<\h2a, \h30>>, <<\h21, \h4f>>, <<\h22, \h00>>,
       <<\h1e, \h01>>, <<\h23, \h80>>,
       <<\h0a, \h02>>, <<\h38, \h02>>, <<\h39, \h04>>, <<\h3a, \h08>>,
       <<\h3b, \h10>>,
       <<\h3f, \h04>>, <<\h40, \h08>>, <<\h41, \h10>>, <<\h42, \h20>>,
       <<\h2b, \ha0>>,
       <<\hff, \hd0>>,
       <<\h26, \h97>>, <<\h26, \h17>>, <<\h27, \h0f>>,
       <<\hff, \h81>>, <<\h20, \hbf>>, <<\h20, \hff>> >>

(* suffix_reg_cfg of lt9211c_mipi_rx_pcr_calibration *)
pcr_suffix_reg_cfg ==
    << <<\hff, \h81>>, <<\h09, \hdb>>, <<\h09, \hdf>>,
       <<\hff, \hd0>>, <<\h08, \h80>>, <<\h08, \h00>> >>

(* The delay lt9211c_mipi_rx_pcr_calibration selects. *)
pcr_delay(pclk_khz, burst) ==
    IF pclk_khz < 44000
    THEN IF burst THEN \h40 ELSE \h60
    ELSE \h40

(* The register writes of lt9211c_mipi_rx_pcr_calibration up to its first
   status poll. *)
pcr_calibration_regs(chip, pclk_khz, burst) ==
    LET c0 == regmap_multi_reg_write(chip, pcr_pre_reg_cfg)
        c1 == regmap_write(regmap_write(c0, \h0b, \h6f), \h0b, \hff)
        c2 == regmap_multi_reg_write(c1,
                  << <<\h0c, pcr_delay(pclk_khz, burst)>>, <<\h1b, \h00>>,
                     <<\h1c, pcr_delay(pclk_khz, burst)>> >>)
    IN regmap_multi_reg_write(c2, pcr_suffix_reg_cfg)

(* The chip when lt9211c_mipi_rx_pll_config starts polling for
   convergence. *)
pll_config_regs(chip, pclk_khz, burst) ==
    pcr_calibration_regs(dessc_pll_set_regs(chip, pclk_khz), pclk_khz, burst)

----------------------------------------------------------------------------
(* Page selection of the register routines *)

(* For each routine that accesses registers, its register operations up to
   and including the first one that is not a page select: <<"w", register,
   value>> for a write (value 0 where it is computed), <<"r", register, 0>>
   for a read. *)
RoutineOps ==
    [
      lt9211c_read_chipid |->
          << <<"w", \hff, \h81>>, <<"r", \h00, 0>> >>,
      lt9211c_mipi_rx_phy_poweron |->
          << <<"w", \hff, \hd0>>, <<"r", \h00, 0>> >>,
      lt9211c_mipi_rx_clk_sel |->
          << <<"w", \hff, \h85>>, <<"w", \he9, \h88>> >>,
      lt9211c_mipi_rx_input_sel |->
          << <<"w", \hff, \hd0>>, <<"w", \h04, \h00>> >>,
      lt9211c_mipi_rx_lane_set |->
          << <<"w", \hff, \h85>>, <<"w", \h3f, \h08>> >>,
      lt9211c_video_check_framerate_get |->
          << <<"w", \hff, \h86>>, <<"r", \h43, 0>> >>,
      lt9211c_mipi_rx_sot_get |->
          << <<"w", \hff, \hd0>>, <<"r", \h88, 0>> >>,
      lt9211c_mipi_rx_hs_settle_set |->
          << <<"w", \hff, \hd0>>, <<"w", \h02, \h0a>> >>,
      lt9211c_mipi_rx_hact_get |->
          << <<"w", \hff, \hd0>>, <<"r", \h82, 0>> >>,
      lt9211c_mipi_rx_video_timing_set |->
          << <<"w", \hff, \hd0>>, <<"w", \h0d, 0>> >>,
      lt9211c_mipi_rx_dessc_pll_sdm_cal |->
          << <<"w", \hff, \hd0>>, <<"w", \h08, \h00>> >>,
      lt9211c_mipi_rx_dessc_pll_set |->
          << <<"w", \hff, \h82>>, <<"w", \h26, \h20>> >>,
      lt9211c_mipi_rx_pcr_calibration |->
          << <<"w", \hff, \hd0>>, <<"w", \h0c, \h60>> >>,
      lt9211c_lvds_tx_phy_poweroff |->
          << <<"w", \hff, \h82>>, <<"w", \h36, \h00>> >>,
      lt9211c_lvds_tx_phy_poweron |->
          << <<"w", \hff, \h82>>, <<"w", \h36, \h03>> >>,
      lt9211c_lvds_tx_pll_ref_pixel_clk_set |->
          << <<"w", \hff, \h82>>, <<"w", \h30, \h00>> >>,
      lt9211c_lvds_tx_pll_config |->
          << <<"w", \hff, \h85>>, <<"r", \h6f, 0>> >>,
      lt9211c_lvds_tx_pll_calibration |->
          << <<"w", \hff, \h81>>, <<"w", \h0c, \hfe>> >>,
      lt9211c_lvds_tx_port_set |->
          << <<"w", \hff, \h85>>, <<"r", \h6f, 0>> >>,
      lt9211c_lvds_tx_video_format_set |->
          << <<"w", \hff, \h85>>, <<"r", \h6e, 0>> >>,
      lt9211c_lvds_tx_lane_num_set |->
          << <<"w", \hff, \h85>>, <<"w", \h4a, \h01>> >>,
      lt9211c_lvds_tx_port_swap |->
          << <<"w", \hff, \h85>>, <<"w", \h4a, \h01>> >>,
      lt9211c_lvds_tx_sw_reset |->
          << <<"w", \hff, \h81>>, <<"w", \h08, \h6f>> >>,
      lt9211c_system_video_chk_clk_src_sel |->
          << <<"w", \hff, \h81>>, <<"r", \h80, 0>> >>,
      lt9211c_system_video_chk_src_sel |->
          << <<"w", \hff, \h86>>, <<"r", \h80, 0>> >>,
      lt9211c_system_act_rx_sel |->
          << <<"w", \hff, \h85>>, <<"r", \h30, 0>> >>,
      lt9211c_system_tx_sram_sel |->
          << <<"w", \hff, \h85>>, <<"r", \h30, 0>> >>,
      lt9211c_system_fm_clk_get |->
          << <<"w", \hff, \h86>>, <<"w", \h90, 0>> >>,
      lt9211c_video_check_get |->
          << <<"w", \hff, \h81>>, <<"w", \h0b, \h7f>> >>,
      lt9211c_mipi_rx_video_check_stable |->
          << <<"w", \hff, \h86>>, <<"r", \h40, 0>> >> ]

(* Variant: the routines start at their first register access. *)
LeadingOps_NoPageSelect(routine) == Tail(RoutineOps[routine])

LeadingOps(routine) == RoutineOps[routine]

(* The page in force when the operations reach their first access that is
   not a page select, entered with page selected. *)
RECURSIVE FirstAccessPage(_, _)
FirstAccessPage(ops, page) ==
    IF ops = <<>> THEN page
    ELSE IF Head(ops)[1] = "w" /\ Head(ops)[2] = \hff
    THEN FirstAccessPage(Tail(ops), Head(ops)[3])
    ELSE page

----------------------------------------------------------------------------
(* Values read from the chip *)

(* Probe readings: word count, active lines, format code, frame time.
   RGB8 and YUV422-8 sources at 1920x1080 and 1280x720, 60 Hz and 75 Hz,
   and a line with no plausible video. *)
BringupProbeInputs ==
    { [wc |-> 5760, vact |-> 1080, fmt |-> 10, frametime |-> 416667],
      [wc |-> 5760, vact |-> 1080, fmt |-> 10, frametime |-> 333333],
      [wc |-> 3840, vact |-> 1080, fmt |-> 3,  frametime |-> 416667],
      [wc |-> 3840, vact |-> 1080, fmt |-> 3,  frametime |-> 333333],
      [wc |-> 3840, vact |-> 720,  fmt |-> 10, frametime |-> 416667],
      [wc |-> 300,  vact |-> 100,  fmt |-> 10, frametime |-> 416667],
      [wc |-> 300,  vact |-> 100,  fmt |-> 3,  frametime |-> 416667],
      [wc |-> 1200, vact |-> 400,  fmt |-> 10, frametime |-> 416667],
      [wc |-> 1199, vact |-> 1080, fmt |-> 10, frametime |-> 416667],
      [wc |-> 5760, vact |-> 399,  fmt |-> 10, frametime |-> 416667] }

(* The study of callbacks interleaved with the work keeps one succeeding and
   one failing reading per stage and no transport errors. *)
Narrow == scope = "lifecycle"

(* The study of the retry counter counts the failing attempts in a row. *)
Counting == scope = "retry"

(* The studies of interleavings keep one succeeding and one failing reading
   per stage. *)
Reduced == scope # "bringup"

ProbeInputs ==
    IF Reduced
    THEN { [wc |-> 5760, vact |-> 1080, fmt |-> 10, frametime |-> 416667],
           [wc |-> 300,  vact |-> 100,  fmt |-> 3,  frametime |-> 416667] }
    ELSE BringupProbeInputs

\* whether the last timing register write reports a transport error
TimingWriteErrs == IF Reduced THEN {FALSE} ELSE BOOLEAN
\* first stable status poll (0: never)
PcrStableAt == IF Reduced THEN {0, 1} ELSE {0, 1, 52}
PllErrs == IF Reduced THEN {"none"} ELSE {"none", "pcr_read", "chk_src"}
\* unstable video checks before a stable one
StableFailCounts == IF Reduced THEN {0, 51} ELSE {0, 1, 50, 51, 60}
\* pixel clock measured by the frequency meter
FmClkReadings == IF Reduced THEN {148500} ELSE {148500, 74250}
\* first calibration round showing done (0: none)
TxDoneAt == IF Reduced THEN {1} ELSE {0, 1, 4}

(* The per-invocation history (visited, nsched, failedAt, lastFmt,
   lastVidOk, hist) is bookkeeping for the bring-up study; it never feeds
   back into the driver. *)
Traced(old, new) == IF Narrow THEN old ELSE new

----------------------------------------------------------------------------
(* Deferred work *)

(* schedule_delayed_work(&ctx->delayed_work, 0): queues the work item unless
   it is already pending. *)
schedule_delayed_work(q, p) ==
    [queued |-> IF p THEN q ELSE q + 1, pendingBit |-> TRUE]

(* A worker thread takes the least free slot. *)
FreeWorker(w) ==
    /\ pc[w] = Idle
    /\ \A v \in Workers : v < w => pc[v] # Idle

(* The workqueue does not start a work item that is still running, unless
   the item was re-initialised after that run began. *)
MayStart == \A v \in Workers : pc[v] # Idle => v \in orphan

----------------------------------------------------------------------------
(* lt9211c_module_config *)

(* The else branch of the InputTimingConfig block: the new counter and
   state after a failed attempt that probed format fmt. *)
(* Variant: the threshold compared with >= instead of >. *)
VidTimingFail_OffByOne(c, fmt, st) ==
    LET c1 == c + 1
        c2 == IF fmt = 10 THEN 0 ELSE c1
    IN [counter |-> c2,
        state |-> IF c2 >= 30 THEN LT9211C_STATE_PREPARE ELSE st]

(* Variant: the counter is not cleared when format 0x0A was probed. *)
VidTimingFail_NoReset(c, fmt, st) ==
    [counter |-> c + 1,
     state |-> IF c + 1 > 30 THEN LT9211C_STATE_PREPARE ELSE st]

(* Variant: the counter is cleared whatever format was probed. *)
VidTimingFail_AlwaysReset(c, fmt, st) ==
    [counter |-> 0, state |-> st]

VidTimingFail(c, fmt, st) ==
    LET c1 == c + 1
        c2 == IF fmt = 10 THEN 0 ELSE c1
    IN [counter |-> c2,
        state |-> IF c2 > 30 THEN LT9211C_STATE_PREPARE ELSE st]

(* Variant: every case block ends with a break. *)
FallThrough_Break(block) == Idle

(* A block that neither returns nor breaks falls through to the next case. *)
FallThrough(block) == block + 1

(* The state written when clock recovery fails. *)
PllFailState_Prepare == LT9211C_STATE_PREPARE

PllFailState == LT9211C_STATE_CHIPRX_VIDTIMING_CONFIG

(* Entry of lt9211c_module_config from the work item: the probed timing is
   cleared and the switch selects the block of the current state. *)
Start(w) ==
    /\ queued > 0
    /\ FreeWorker(w)
    /\ MayStart
    /\ queued' = queued - 1
    /\ pendingBit' = FALSE
    /\ rx' = ZeroRxTiming
    /\ pc' = [pc EXCEPT ![w] = state]
    /\ visited' = [visited EXCEPT ![w] = <<>>]
    /\ nsched' = [nsched EXCEPT ![w] = 0]
    /\ failedAt' = [failedAt EXCEPT ![w] = {}]
    /\ UNCHANGED <<state, counter, vt, orphan, bridge_on, life, nEnable, settled,
                   lastFmt, lastVidOk, hist, videomode, enumerated, other, scope, call, result>>

(* The bookkeeping shared by the blocks: the block is recorded, and the
   invocation either goes on to block next or returns. *)
Continue(w, block, next) ==
    /\ pc' = [pc EXCEPT ![w] = next]
    /\ visited' = Traced(visited, [visited EXCEPT ![w] = Append(@, block)])
    /\ UNCHANGED <<queued, pendingBit, nsched, failedAt, orphan>>

(* Variant: a failing block returns without queuing the work again. *)
RescheduleAndReturn_NoSchedule(w, block) ==
    /\ UNCHANGED <<queued, pendingBit, nsched>>
    /\ pc' = [pc EXCEPT ![w] = Idle]
    /\ orphan' = orphan \ {w}
    /\ visited' = Traced(visited, [visited EXCEPT ![w] = Append(@, block)])
    /\ failedAt' = Traced(failedAt, [failedAt EXCEPT ![w] = {block}])

(* A failing block: schedule_delayed_work(..., 0), then return ret. *)
RescheduleAndReturn(w, block) ==
    /\ queued' = schedule_delayed_work(queued, pendingBit).queued
    /\ pendingBit' = schedule_delayed_work(queued, pendingBit).pendingBit
    /\ pc' = [pc EXCEPT ![w] = Idle]
    /\ orphan' = orphan \ {w}
    /\ visited' = Traced(visited, [visited EXCEPT ![w] = Append(@, block)])
    /\ nsched' = Traced(nsched, [nsched EXCEPT ![w] = @ + 1])
    /\ failedAt' = Traced(failedAt, [failedAt EXCEPT ![w] = {block}])

(* case LT9211C_STATE_PREPARE *)
Prepare(w) ==
    /\ pc[w] = LT9211C_STATE_PREPARE
    /\ counter' = 0
    /\ state' = LT9211C_STATE_CHIPRX_VIDTIMING_CONFIG
    /\ Continue(w, LT9211C_STATE_PREPARE, FallThrough(LT9211C_STATE_PREPARE))
    /\ hist' = Traced(hist, [hist EXCEPT !.own = 0, !.pcrOk = FALSE, !.txLock = FALSE,
                                     !.pllOk = FALSE, !.txDone = FALSE,
                                     !.consec = 0])
    /\ UNCHANGED <<rx, vt, bridge_on, life, nEnable, settled, lastFmt, lastVidOk,
                   videomode, enumerated, other, scope, call, result>>

(* case LT9211C_STATE_CHIPRX_VIDTIMING_CONFIG *)
VidTimingConfig(w) ==
    /\ pc[w] = LT9211C_STATE_CHIPRX_VIDTIMING_CONFIG
    /\ \E p \in ProbeInputs, writeErr \in TimingWriteErrs :
         LET r == ProbedRx(p.wc, p.vact, p.fmt)
             res == lt9211c_mipi_rx_video_timing_config(r, p.frametime, vt, writeErr)
             f == VidTimingFail(counter, r.fmt, state)
         IN /\ settled => res.ret >= 0
            /\ rx' = r
            /\ vt' = res.vt
            /\ lastFmt' = Traced(lastFmt, r.fmt)
            /\ lastVidOk' = Traced(lastVidOk, res.ret >= 0)
            /\ hist' = Traced(hist,
                   [hist EXCEPT !.cfg = [ret |-> res.ret, calls |-> res.calls],
                                !.own = IF res.ret >= 0 THEN @ ELSE f.counter,
                                !.consec = IF ~Counting THEN @
                                           ELSE IF res.ret >= 0 THEN 0
                                           ELSE IF @ >= 31 THEN 31 ELSE @ + 1])
            /\ IF res.ret >= 0
               THEN /\ state' = LT9211C_STATE_CHIPRX_PLL_CONFIG
                    /\ counter' = counter
                    /\ Continue(w, LT9211C_STATE_CHIPRX_VIDTIMING_CONFIG,
                                FallThrough(LT9211C_STATE_CHIPRX_VIDTIMING_CONFIG))
               ELSE /\ counter' = f.counter
                    /\ state' = f.state
                    /\ RescheduleAndReturn(w, LT9211C_STATE_CHIPRX_VIDTIMING_CONFIG)
    /\ UNCHANGED <<bridge_on, life, nEnable, settled, videomode, enumerated, other, scope, call, result>>

(* case LT9211C_STATE_CHIPRX_PLL_CONFIG *)
PllConfig(w) ==
    /\ pc[w] = LT9211C_STATE_CHIPRX_PLL_CONFIG
    /\ \E stableAt \in PcrStableAt, err \in PllErrs, failCount \in StableFailCounts :
         LET ret == lt9211c_mipi_rx_pll_config(stableAt, err) IN
         /\ settled => ret >= 0
         /\ IF ret < 0
            THEN /\ state' = PllFailState
                 /\ counter' = counter
                 /\ hist' = Traced(hist,
                        [hist EXCEPT !.pcrOk = @ \/ PcrCalibrated(stableAt, err),
                                     !.pllOk = ret >= 0])
                 /\ RescheduleAndReturn(w, LT9211C_STATE_CHIPRX_PLL_CONFIG)
            ELSE /\ counter' = StableSpin(0, 0, failCount).counter
                 /\ hist' = Traced(hist,
                        [hist EXCEPT !.pcrOk = @ \/ PcrCalibrated(stableAt, err),
                                     !.pllOk = ret >= 0,
                                     !.own = StableSpin(0, 0, failCount).counter,
                                     !.spin = [checks |-> StableSpin(0, 0, failCount).checks,
                                               stable |-> StableSpin(0, 0, failCount).stable]])
                 /\ state' = AfterSpinState(StableSpin(0, 0, failCount))
                 /\ Continue(w, LT9211C_STATE_CHIPRX_PLL_CONFIG,
                             FallThrough(LT9211C_STATE_CHIPRX_PLL_CONFIG))
    /\ UNCHANGED <<rx, vt, bridge_on, life, nEnable, settled, lastFmt, lastVidOk,
                   videomode, enumerated, other, scope, call, result>>

(* case LT9211C_STATE_CHIPTX_CONFIG_VIDEO *)
TxConfigVideo(w) ==
    /\ pc[w] = LT9211C_STATE_CHIPTX_CONFIG_VIDEO
    /\ \E measured \in FmClkReadings, doneAt \in TxDoneAt, lock \in BOOLEAN :
         LET res == lt9211c_lvds_tx_config_video(vt, measured, doneAt, lock) IN
         /\ settled => res.ret >= 0
         /\ vt' = res.vt
         /\ hist' = Traced(hist, [hist EXCEPT !.txLock = lock,
                                              !.txDone = doneAt \in 1..4])
         /\ IF res.ret < 0
            THEN /\ state' = state
                 /\ RescheduleAndReturn(w, LT9211C_STATE_CHIPTX_CONFIG_VIDEO)
            ELSE /\ state' = LT9211C_STATE_CHIPTX_VIDEO_OUT
                 /\ Continue(w, LT9211C_STATE_CHIPTX_CONFIG_VIDEO,
                             FallThrough(LT9211C_STATE_CHIPTX_CONFIG_VIDEO))
    /\ UNCHANGED <<counter, rx, bridge_on, life, nEnable, settled, lastFmt,
                   lastVidOk, videomode, enumerated, other, scope, call, result>>

(* Variant: the last block queues the work again before returning. *)
VideoOut_Reschedule(w) ==
    /\ pc[w] = LT9211C_STATE_CHIPTX_VIDEO_OUT
    /\ queued' = schedule_delayed_work(queued, pendingBit).queued
    /\ pendingBit' = schedule_delayed_work(queued, pendingBit).pendingBit
    /\ pc' = [pc EXCEPT ![w] = Idle]
    /\ orphan' = orphan \ {w}
    /\ visited' = Traced(visited, [visited EXCEPT ![w] = Append(@, LT9211C_STATE_CHIPTX_VIDEO_OUT)])
    /\ nsched' = Traced(nsched, [nsched EXCEPT ![w] = @ + 1])
    /\ UNCHANGED <<state, counter, rx, vt, failedAt,
                   bridge_on, life, nEnable, settled, lastFmt, lastVidOk, hist,
                   videomode, enumerated, other, scope, call, result>>

(* case LT9211C_STATE_CHIPTX_VIDEO_OUT: the output is formatted, the switch
   breaks and the handler returns without queuing anything. *)
VideoOut(w) ==
    /\ pc[w] = LT9211C_STATE_CHIPTX_VIDEO_OUT
    /\ pc' = [pc EXCEPT ![w] = Idle]
    /\ orphan' = orphan \ {w}
    /\ visited' = Traced(visited, [visited EXCEPT ![w] = Append(@, LT9211C_STATE_CHIPTX_VIDEO_OUT)])
    /\ UNCHANGED <<state, counter, rx, vt, queued, pendingBit, nsched, failedAt,
                   bridge_on, life, nEnable, settled, lastFmt, lastVidOk, hist,
                   videomode, enumerated, other, scope, call, result>>

----------------------------------------------------------------------------
(* Bridge callbacks and driver removal *)

(* lt9211c_bridge_enable -> lt9211c_module_init: lt9211c_init_work sets the
   state to Prepare and re-initialises the delayed work item (which clears
   its pending bit and its link to a running invocation), then the item is
   scheduled.  Nothing cancels or waits for work queued earlier; an entry
   that is still queued when the item is re-initialised either stays on the
   workqueue or is lost. *)
Enable ==
    /\ life = "attached"
    /\ ~bridge_on
    /\ nEnable < MaxEnable
    /\ bridge_on' = TRUE
    /\ nEnable' = nEnable + 1
    /\ state' = LT9211C_STATE_PREPARE
    /\ orphan' = {w \in Workers : pc[w] # Idle}
    /\ \E kept \in {0, queued} :
         /\ queued' = schedule_delayed_work(kept, FALSE).queued
         /\ pendingBit' = schedule_delayed_work(kept, FALSE).pendingBit
    /\ UNCHANGED <<counter, rx, vt, pc, life, settled, visited, nsched, failedAt,
                   lastFmt, lastVidOk, hist, videomode, enumerated, other, scope, call, result>>

(* lt9211c_bridge_disable: empty. *)
Disable ==
    /\ life = "attached"
    /\ bridge_on
    /\ bridge_on' = FALSE
    /\ UNCHANGED <<state, counter, rx, vt, queued, pendingBit, pc, orphan, life,
                   nEnable, settled, visited, nsched, failedAt, lastFmt, lastVidOk, hist,
                   videomode, enumerated, other, scope, call, result>>

(* lt9211c_bridge_detach: detaches and unregisters the DSI device only. *)
Detach ==
    /\ life = "attached"
    /\ ~bridge_on
    /\ life' = "detached"
    /\ UNCHANGED <<state, counter, rx, vt, queued, pendingBit, pc, orphan, bridge_on,
                   nEnable, settled, visited, nsched, failedAt, lastFmt, lastVidOk, hist,
                   videomode, enumerated, other, scope, call, result>>

(* lt9211c_remove: disables the clock and removes the bridge only. *)
Remove ==
    /\ life # "removed"
    /\ ~bridge_on
    /\ life' = "removed"
    /\ UNCHANGED <<state, counter, rx, vt, queued, pendingBit, pc, orphan, bridge_on,
                   nEnable, settled, visited, nsched, failedAt, lastFmt, lastVidOk, hist,
                   videomode, enumerated, other, scope, call, result>>

(* Environment: the input signal and both PLLs have settled; from here on
   every stage attempt succeeds. *)
Settle ==
    /\ ~settled
    /\ settled' = TRUE
    /\ UNCHANGED <<state, counter, rx, vt, queued, pendingBit, pc, orphan, bridge_on,
                   life, nEnable, visited, nsched, failedAt, lastFmt, lastVidOk, hist,
                   videomode, enumerated, other, scope, call, result>>

----------------------------------------------------------------------------
(* A second bridge device *)

(* One case block of lt9211c_module_config run for a second device bound
   to the same driver.  Its context (here only its state) is its own; the
   function-static retry counter is the one the first device uses.  Its
   readings are inputs: whether the stage succeeds, the format probed, and
   the number of unstable video checks. *)
OtherDevice ==
    /\ \/ /\ other = LT9211C_STATE_PREPARE
          /\ counter' = 0
          /\ other' = LT9211C_STATE_CHIPRX_VIDTIMING_CONFIG
       \/ /\ other = LT9211C_STATE_CHIPRX_VIDTIMING_CONFIG
          /\ \E ok \in BOOLEAN, fmt \in {3, 10} :
                IF ok
                THEN /\ other' = LT9211C_STATE_CHIPRX_PLL_CONFIG
                     /\ counter' = counter
                ELSE /\ other' = VidTimingFail(counter, fmt, other).state
                     /\ counter' = VidTimingFail(counter, fmt, other).counter
       \/ /\ other = LT9211C_STATE_CHIPRX_PLL_CONFIG
          /\ \E ok \in BOOLEAN, failCount \in {0, 51} :
                IF ok
                THEN /\ other' = LT9211C_STATE_CHIPTX_CONFIG_VIDEO
                     /\ counter' = StableSpin(0, 0, failCount).counter
                ELSE /\ other' = PllFailState
                     /\ counter' = counter
       \/ /\ other = LT9211C_STATE_CHIPTX_CONFIG_VIDEO
          /\ \E ok \in BOOLEAN :
                other' = IF ok THEN LT9211C_STATE_CHIPTX_VIDEO_OUT ELSE other
          /\ counter' = counter
    /\ UNCHANGED <<state, rx, vt, queued, pendingBit, pc, orphan, bridge_on,
                   life, nEnable, settled, visited, nsched, failedAt, lastFmt,
                   lastVidOk, hist, videomode, enumerated, scope, call, result>>

----------------------------------------------------------------------------
(* Mode enumeration *)

(* lt9211c_default_timing (the typical values), and the panel size *)
lt9211c_default_timing ==
    [pixelclock |-> 148500000, hactive |-> 1920, hfront_porch |-> 88,
     hback_porch |-> 148, hsync_len |-> 44, vactive |-> 1080,
     vfront_porch |-> 4, vback_porch |-> 36, vsync_len |-> 5]

g_width_mm == 698
g_height_mm == 393

(* videomode_from_timing: the typical value of every field. *)
videomode_from_timing(dt) == dt

(* drm_display_mode_from_videomode: clock in kHz, sync positions and totals
   accumulated from the active size, porches and sync length. *)
drm_display_mode_from_videomode(vm) ==
    [clock |-> vm.pixelclock \div 1000,
     hdisplay |-> vm.hactive,
     hsync_start |-> vm.hactive + vm.hfront_porch,
     hsync_end |-> vm.hactive + vm.hfront_porch + vm.hsync_len,
     htotal |-> vm.hactive + vm.hfront_porch + vm.hsync_len + vm.hback_porch,
     vdisplay |-> vm.vactive,
     vsync_start |-> vm.vactive + vm.vfront_porch,
     vsync_end |-> vm.vactive + vm.vfront_porch + vm.vsync_len,
     vtotal |-> vm.vactive + vm.vfront_porch + vm.vsync_len + vm.vback_porch]

(* The fields of the context that mode enumeration can see. *)
Ctx ==
    [videomode |-> videomode, lt9211c_video_timing |-> vt,
     width_mm |-> g_width_mm, height_mm |-> g_height_mm]

(* The mode lt9211c_get_modes adds for a video mode. *)
ProbedMode(vm, ctx) ==
    [mode |-> drm_display_mode_from_videomode(vm),
     width_mm |-> ctx.width_mm, height_mm |-> ctx.height_mm,
     type |-> {"DRM_MODE_TYPE_DRIVER", "DRM_MODE_TYPE_PREFERRED"}]

(* Variant: the mode is built from the timing the matcher resolved. *)
lt9211c_get_modes_FromResolvedTiming(ctx, allocOk) ==
    IF ~allocOk THEN [ret |-> 0, modes |-> <<>>]
    ELSE [ret |-> 1,
          modes |-> << ProbedMode(
              [pixelclock |-> ctx.lt9211c_video_timing.pclk_khz * 1000,
               hactive |-> ctx.lt9211c_video_timing.hactive,
               hfront_porch |-> ctx.lt9211c_video_timing.hfront_porch,
               hback_porch |-> ctx.lt9211c_video_timing.hback_porch,
               hsync_len |-> ctx.lt9211c_video_timing.hsync_len,
               vactive |-> ctx.lt9211c_video_timing.vactive,
               vfront_porch |-> ctx.lt9211c_video_timing.vfront_porch,
               vback_porch |-> ctx.lt9211c_video_timing.vback_porch,
               vsync_len |-> ctx.lt9211c_video_timing.vsync_len], ctx) >>]

(* lt9211c_get_modes: the number of modes returned and the modes added to
   the connector.  allocOk: drm_mode_create returned a mode. *)
lt9211c_get_modes(ctx, allocOk) ==
    IF ~allocOk THEN [ret |-> 0, modes |-> <<>>]
    ELSE [ret |-> 1, modes |-> << ProbedMode(ctx.videomode, ctx) >>]

(* lt9211c_bridge_get_modes / lt9211c_connector_get_modes *)
GetModes ==
    /\ life = "attached"
    /\ \E allocOk \in BOOLEAN :
         enumerated' = << lt9211c_get_modes(Ctx, allocOk) >>
    /\ UNCHANGED <<state, counter, rx, vt, queued, pendingBit, pc, orphan, bridge_on,
                   life, nEnable, settled, visited, nsched, failedAt, lastFmt,
                   lastVidOk, hist, videomode, other, scope, call, result>>

----------------------------------------------------------------------------
(* Stand-alone runs of single routines *)

TableHactive == {lt9211c_support_timing[i].hactive : i \in 1..support_timing_array_size}
TableVactive == {lt9211c_support_timing[i].vactive : i \in 1..support_timing_array_size}

(* Probed resolutions and measured rates handed to the mode matcher. *)
MatcherCalls ==
    [fn : {"video_timing_sel"},
     hact : TableHactive \cup {100},
     vact : TableVactive \cup {100},
     rate : 0..255]

(* lt9211c_mipi_rx_dessc_pll_set on the timing a successful match resolved,
   as lt9211c_mipi_rx_pll_config runs it after the match. *)
RunDesscPllSet ==
    /\ call.fn = "video_timing_sel"
    /\ Len(result) = 1
    /\ result[1].ret >= 0
    /\ result' = Append(result, lt9211c_mipi_rx_dessc_pll_set(result[1].vt.pclk_khz))
    /\ UNCHANGED <<state, counter, rx, vt, queued, pendingBit, pc, orphan, bridge_on,
                   life, nEnable, settled, visited, nsched, failedAt, lastFmt,
                   lastVidOk, hist, videomode, enumerated, other, scope, call>>

(* Word counts handed to the probe: the small ones, those around the
   points where a factor first exceeds 16 bits, a stride over the range,
   and the largest. *)
WrapPoints == {13107, 14563, 17476, 26214, 29127, 43690, 52428}

WordCounts ==
    (0..24) \cup {w + d : w \in WrapPoints, d \in 0..2}
            \cup {k * 1021 : k \in 0..64} \cup {1200, 3840, 5760, 65534, 65535}

HactCalls == [fn : {"hact_get"}, wc : WordCounts, fmt : 0..15]

RunHactGet ==
    /\ result = <<>>
    /\ call.fn = "hact_get"
    /\ result' = << lt9211c_mipi_rx_hact_get(call.wc, call.fmt) >>
    /\ UNCHANGED <<state, counter, rx, vt, queued, pendingBit, pc, orphan, bridge_on,
                   life, nEnable, settled, visited, nsched, failedAt, lastFmt,
                   lastVidOk, hist, videomode, enumerated, other, scope, call>>

(* Status-register behaviours handed to the clock-recovery calibration:
   the first read showing both stable bits (0: none within the horizon)
   and whether that read reported a transport error. *)
MaxStableAt == 60

PcrCalls == [fn : {"pcr_calibration"}, stableAt : 0..MaxStableAt, readErr : BOOLEAN]

RunPcrCalibration ==
    /\ result = <<>>
    /\ call.fn = "pcr_calibration"
    /\ result' = << lt9211c_mipi_rx_pcr_calibration(call.stableAt, call.readErr) >>
    /\ UNCHANGED <<state, counter, rx, vt, queued, pendingBit, pc, orphan, bridge_on,
                   life, nEnable, settled, visited, nsched, failedAt, lastFmt,
                   lastVidOk, hist, videomode, enumerated, other, scope, call>>

(* Pixel clocks handed to the output PLL engine: the edges of the bands
   of the pre-divider, of the serial-clock divider (on pclk * 7 / 2) and of
   the pixel-clock divider, the clocks of the timing table, and the ends
   of the 20-bit range of the frequency meter, the smallest clocks and a
   stride over the range. *)
TxBandEdges ==
    {20000, 40000, 80000, 160000, 320000, 150000,
     22858, 45715, 91429, 182858}

TxClocks ==
    {e + d : e \in TxBandEdges, d \in {-1, 0}}
        \cup {(lt9211c_support_timing[i].htotal * lt9211c_support_timing[i].vtotal
                  * lt9211c_support_timing[i].framerate) \div 1000 :
                i \in 1..support_timing_array_size}
        \cup {0, 1, 1048575}
        \cup (2..16) \cup {150001, 150002, 182856}
        \cup {k * 32771 : k \in 1..31}

(* Behaviours of the done flag: the first round whose read shows it
   (0: none within the horizon). *)
MaxDoneAt == 5

TxCalls ==
    [fn : {"lvds_tx_config_video"}, pclk : TxClocks, doneAt : 0..MaxDoneAt,
     lock : BOOLEAN]

(* lt9211c_lvds_tx_config_video on a measured pixel clock: the PLL is
   configured, then calibrated. *)
RunTxConfigVideo ==
    /\ result = <<>>
    /\ call.fn = "lvds_tx_config_video"
    /\ result' = << [pll |-> lt9211c_lvds_tx_pll_config(call.pclk),
                     cal |-> lt9211c_lvds_tx_pll_calibration(call.doneAt, call.lock)] >>
    /\ UNCHANGED <<state, counter, rx, vt, queued, pendingBit, pc, orphan, bridge_on,
                   life, nEnable, settled, visited, nsched, failedAt, lastFmt,
                   lastVidOk, hist, videomode, enumerated, other, scope, call>>

(* Pixel clocks handed to the divider selection: the band bounds and
   their neighbours, and a stride over the range up to 420000 kHz. *)
DesscBandBounds == {22000, 44000, 88000, 176000, 352000}

DesscClocks ==
    {b + d : b \in DesscBandBounds, d \in {-1, 0, 1}} \cup {k * 7000 : k \in 0..60}

DesscCalls == [fn : {"dessc_pll_div"}, pclk : DesscClocks]

(* The band selection of lt9211c_mipi_rx_dessc_pll_set. *)
RunDesscBand ==
    /\ result = <<>>
    /\ call.fn = "dessc_pll_div"
    /\ result' = << [div |-> dessc_pll_pixel_clock_div(call.pclk),
                     lowf |-> dessc_pll_lowf_pixck_divsel(call.pclk)] >>
    /\ UNCHANGED <<state, counter, rx, vt, queued, pendingBit, pc, orphan, bridge_on,
                   life, nEnable, settled, visited, nsched, failedAt, lastFmt,
                   lastVidOk, hist, videomode, enumerated, other, scope, call>>

(* Pixel clocks of the timing table. *)
TableClocks ==
    {(lt9211c_support_timing[i].htotal * lt9211c_support_timing[i].vtotal
        * lt9211c_support_timing[i].framerate) \div 1000 :
     i \in 1..support_timing_array_size}

(* Register pages the routines of the driver select. *)
Pages == {\h81, \h82, \h85, \h86, \h87, \hd0}

(* The DSI mode flags set at attach include MIPI_DSI_MODE_VIDEO_BURST. *)
DsiBurst == {TRUE}

(* lt9211c_mipi_rx_pll_config on a resolved pixel clock, entered with any
   page selected. *)
PllRegCalls ==
    [fn : {"pll_config_regs"}, pclk : TableClocks, burst : DsiBurst, page : Pages]

RunPllConfigRegs ==
    /\ result = <<>>
    /\ call.fn = "pll_config_regs"
    /\ result' = << pll_config_regs(Chip(call.page), call.pclk, call.burst) >>
    /\ UNCHANGED <<state, counter, rx, vt, queued, pendingBit, pc, orphan, bridge_on,
                   life, nEnable, settled, visited, nsched, failedAt, lastFmt,
                   lastVidOk, hist, videomode, enumerated, other, scope, call>>

(* Each routine entered with each page left selected by another. *)
PageCalls == [fn : {"first_access"}, routine : DOMAIN RoutineOps, page : Pages]

RunFirstAccess ==
    /\ result = <<>>
    /\ call.fn = "first_access"
    /\ result' = << FirstAccessPage(LeadingOps(call.routine), call.page) >>
    /\ UNCHANGED <<state, counter, rx, vt, queued, pendingBit, pc, orphan, bridge_on,
                   life, nEnable, settled, visited, nsched, failedAt, lastFmt,
                   lastVidOk, hist, videomode, enumerated, other, scope, call>>

(* Frame-time counter values handed to the frame-rate conversion: those
   of the common rates, the ends of the 24-bit range, values whose rate
   passes 255, and a stride; and what the uninitialised bytes of the read
   buffer hold. *)
FrameTimes ==
    {1, 2, 16777215, 416667, 423729, 409836, 333333, 500000, 833333, 1041667,
     79113, 79114, 97656, 97657, 98039, 98040}
        \cup {k * 8191 : k \in 1..48}

ReadBufferJunk == {0, 1}

RateCalls == [fn : {"framerate_get"}, frametime : FrameTimes, junk : ReadBufferJunk]

RunFramerateGet ==
    /\ result = <<>>
    /\ call.fn = "framerate_get"
    /\ result' = << lt9211c_video_check_framerate_get(
                        frametime_assembled(call.frametime, call.junk)) >>
    /\ UNCHANGED <<state, counter, rx, vt, queued, pendingBit, pc, orphan, bridge_on,
                   life, nEnable, settled, visited, nsched, failedAt, lastFmt,
                   lastVidOk, hist, videomode, enumerated, other, scope, call>>

RunCall ==
    /\ result = <<>>
    /\ call.fn = "video_timing_sel"
    /\ result' = << lt9211c_mipi_rx_video_timing_sel(
                        [wc |-> 0, hact |-> call.hact, vact |-> call.vact, fmt |-> 0],
                        call.rate, ZeroVideoTiming, FALSE) >>
    /\ UNCHANGED <<state, counter, rx, vt, queued, pendingBit, pc, orphan, bridge_on,
                   life, nEnable, settled, visited, nsched, failedAt, lastFmt,
                   lastVidOk, hist, videomode, enumerated, other, scope, call>>

----------------------------------------------------------------------------
(* Specifications *)

(* Nothing has been done yet.  cfg: return value and routines run by the
   latest lt9211c_mipi_rx_video_timing_config; own: the retry counter as
   this device last wrote it; pcrOk: a clock-recovery calibration
   has succeeded since the last Prepare; txLock: the lock bit read by the
   latest output PLL calibration;
   spin: stability checks made by the latest spin and whether one passed;
   pllOk: the latest lt9211c_mipi_rx_pll_config since the last Prepare
   succeeded; txDone: a read of the latest output PLL calibration showed
   the done flag; consec: the failing InputTimingConfig attempts made since
   the last successful one or the last Prepare, counted up to 31. *)
InitHist ==
    [cfg |-> [ret |-> 0, calls |-> <<>>], own |-> 0, pcrOk |-> FALSE,
     txLock |-> FALSE, spin |-> [checks |-> 0, stable |-> FALSE], pllOk |-> FALSE,
     txDone |-> FALSE, consec |-> 0]

(* The context after lt9211c_probe (devm_kzalloc) and bridge attach. *)
InitDriver ==
    /\ state = 0
    /\ counter = 0
    /\ rx = ZeroRxTiming
    /\ vt = ZeroVideoTiming
    /\ queued = 0
    /\ pendingBit = FALSE
    /\ pc = [w \in Workers |-> Idle]
    /\ orphan = {}
    /\ bridge_on = FALSE
    /\ life = "attached"
    /\ nEnable = 0
    /\ settled = FALSE
    /\ visited = [w \in Workers |-> <<>>]
    /\ nsched = [w \in Workers |-> 0]
    /\ failedAt = [w \in Workers |-> {}]
    /\ lastFmt = 0
    /\ lastVidOk = FALSE
    /\ hist = InitHist
    /\ videomode = videomode_from_timing(lt9211c_default_timing)
    /\ enumerated = <<>>
    /\ other = LT9211C_STATE_PREPARE

Init ==
    /\ InitDriver
    /\ scope = "bringup"
    /\ call = [fn |-> "none"]
    /\ result = <<>>

Handler ==
    \E w \in Workers :
        \/ Start(w)
        \/ Prepare(w)
        \/ VidTimingConfig(w)
        \/ PllConfig(w)
        \/ TxConfigVideo(w)
        \/ VideoOut(w)

(* One enable of an attached bridge, then the deferred work runs. *)
Next == Enable \/ Settle \/ Handler \/ GetModes

Spec == Init /\ [][Next]_vars

(* The kernel worker runs queued work, and every block of the handler
   terminates (its polling loops are bounded). *)
FairSpec == Spec /\ WF_vars(Handler)

(* Two devices bringing up at the same time. *)
NextTwoDevices == Enable \/ Handler \/ OtherDevice

InitTwoDevices ==
    /\ InitDriver
    /\ scope = "shared"
    /\ call = [fn |-> "none"]
    /\ result = <<>>

SpecTwoDevices == InitTwoDevices /\ [][NextTwoDevices]_vars

(* The bring-up with the failing attempts in a row counted. *)
InitRetry ==
    /\ InitDriver
    /\ scope = "retry"
    /\ call = [fn |-> "none"]
    /\ result = <<>>

SpecRetry == InitRetry /\ [][Enable \/ Handler]_vars

(* Enable and disable calls, detach and removal interleaved with the work. *)
NextLifecycle == Enable \/ Disable \/ Detach \/ Remove \/ Handler

InitLifecycle ==
    /\ InitDriver
    /\ scope = "lifecycle"
    /\ call = [fn |-> "none"]
    /\ result = <<>>

SpecLifecycle == InitLifecycle /\ [][NextLifecycle]_vars

(* The mode matcher alone, on every probed resolution and measured rate. *)
InitMatch ==
    /\ InitDriver
    /\ scope = "bringup"
    /\ call \in MatcherCalls
    /\ result = <<>>

SpecMatch == InitMatch /\ [][RunCall \/ RunDesscPllSet]_vars

(* The active-pixel computation of the probe alone, on word counts and
   format codes. *)
InitProbe ==
    /\ InitDriver
    /\ scope = "bringup"
    /\ call \in HactCalls
    /\ result = <<>>

SpecProbe == InitProbe /\ [][RunHactGet]_vars

(* The polling loop of the clock-recovery calibration alone, on every
   position of the first stable status read. *)
InitPcr ==
    /\ InitDriver
    /\ scope = "bringup"
    /\ call \in PcrCalls
    /\ result = <<>>

SpecPcr == InitPcr /\ [][RunPcrCalibration]_vars

(* The output PLL engine alone, on measured pixel clocks and behaviours of
   the done and lock bits. *)
InitTx ==
    /\ InitDriver
    /\ scope = "bringup"
    /\ call \in TxCalls
    /\ result = <<>>

SpecTx == InitTx /\ [][RunTxConfigVideo]_vars

(* The divider selection of the clock-recovery engine alone. *)
InitDessc ==
    /\ InitDriver
    /\ scope = "bringup"
    /\ call \in DesscCalls
    /\ result = <<>>

SpecDessc == InitDessc /\ [][RunDesscBand]_vars

(* The register writes of the clock-recovery engine alone, up to the first
   status poll. *)
InitPllRegs ==
    /\ InitDriver
    /\ scope = "bringup"
    /\ call \in PllRegCalls
    /\ result = <<>>

SpecPllRegs == InitPllRegs /\ [][RunPllConfigRegs]_vars

(* The first register access of each routine, entered with any page
   selected. *)
InitPages ==
    /\ InitDriver
    /\ scope = "bringup"
    /\ call \in PageCalls
    /\ result = <<>>

SpecPages == InitPages /\ [][RunFirstAccess]_vars

(* The frame-rate conversion alone, on frame-time counter values. *)
InitRate ==
    /\ InitDriver
    /\ scope = "bringup"
    /\ call \in RateCalls
    /\ result = <<>>

SpecRate == InitRate /\ [][RunFramerateGet]_vars

----------------------------------------------------------------------------
(* Properties of the bring-up state machine *)

Pipeline ==
    <<LT9211C_STATE_PREPARE, LT9211C_STATE_CHIPRX_VIDTIMING_CONFIG,
      LT9211C_STATE_CHIPRX_PLL_CONFIG, LT9211C_STATE_CHIPTX_CONFIG_VIDEO,
      LT9211C_STATE_CHIPTX_VIDEO_OUT>>

IsPrefix(s, t) == Len(s) <= Len(t) /\ s = SubSeq(t, 1, Len(s))

AllIdle == \A w \in Workers : pc[w] = Idle

(* C1: an invocation that starts in Prepare and in which every stage
   succeeds runs the blocks Prepare, InputTimingConfig, InputPllConfig,
   OutputConfigVideo, OutputVideoOut in that order, queues no reschedule,
   and has left the state at OutputVideoOut when it returns. *)
C1_SingleInvocationReachesVideoOut ==
    \A w \in Workers :
        (visited[w] # <<>> /\ Head(visited[w]) = LT9211C_STATE_PREPARE
                           /\ failedAt[w] = {})
        => /\ IsPrefix(visited[w], Pipeline)
           /\ nsched[w] = 0
           /\ pc[w] = Idle => /\ visited[w] = Pipeline
                              /\ state = LT9211C_STATE_CHIPTX_VIDEO_OUT
                              /\ queued = 0

C1_Witness ==
    \E w \in Workers : /\ pc[w] = Idle
                       /\ visited[w] = Pipeline
                       /\ failedAt[w] = {}
                       /\ nsched[w] = 0
                       /\ state = LT9211C_STATE_CHIPTX_VIDEO_OUT

(* The transitions the state machine is specified to make. *)
ListedEdges ==
    { <<LT9211C_STATE_PREPARE, LT9211C_STATE_CHIPRX_VIDTIMING_CONFIG>>,
      <<LT9211C_STATE_CHIPRX_VIDTIMING_CONFIG, LT9211C_STATE_CHIPRX_PLL_CONFIG>>,
      <<LT9211C_STATE_CHIPRX_VIDTIMING_CONFIG, LT9211C_STATE_PREPARE>>,
      <<LT9211C_STATE_CHIPRX_PLL_CONFIG, LT9211C_STATE_CHIPTX_CONFIG_VIDEO>>,
      <<LT9211C_STATE_CHIPRX_PLL_CONFIG, LT9211C_STATE_CHIPRX_VIDTIMING_CONFIG>>,
      <<LT9211C_STATE_CHIPTX_CONFIG_VIDEO, LT9211C_STATE_CHIPTX_VIDEO_OUT>> }

(* C2 as stated: the state changes only along the listed edges, so Prepare
   is entered only from InputTimingConfig and nothing leaves
   OutputVideoOut. *)
C2_OnlyListedEdges ==
    [][state' # state => <<state, state'>> \in ListedEdges]_vars

(* C2 amended: the state changes only when bridge enable resets it to
   Prepare (from any state), or when an invocation executing the block of a
   stage writes one of that stage's listed successors. *)
C2_EnableResetOrBlockWrite ==
    [][state' # state =>
          \/ /\ nEnable' = nEnable + 1
             /\ state' = LT9211C_STATE_PREPARE
          \/ \E w \in Workers : /\ pc[w] # Idle
                                /\ pc'[w] # pc[w]
                                /\ <<pc[w], state'>> \in ListedEdges]_vars

C2_Witness ==
    /\ nEnable = 2
    /\ state = LT9211C_STATE_CHIPTX_VIDEO_OUT
    /\ AllIdle
    /\ queued = 0

Last(s) == s[Len(s)]

FailingStages ==
    {LT9211C_STATE_CHIPRX_VIDTIMING_CONFIG, LT9211C_STATE_CHIPRX_PLL_CONFIG,
     LT9211C_STATE_CHIPTX_CONFIG_VIDEO}

(* C3: an invocation that returned after a failing stage queued exactly one
   reschedule; one that returned without a failure completed OutputVideoOut
   and queued none; and whenever the handler has returned with the state
   other than OutputVideoOut, exactly one invocation is pending. *)
C3_RescheduleExactlyOnFailure ==
    /\ \A w \in Workers :
          (pc[w] = Idle /\ visited[w] # <<>>)
          => IF failedAt[w] # {}
             THEN /\ nsched[w] = 1
                  /\ failedAt[w] \subseteq FailingStages
                  /\ failedAt[w] = {Last(visited[w])}
             ELSE /\ nsched[w] = 0
                  /\ Last(visited[w]) = LT9211C_STATE_CHIPTX_VIDEO_OUT
    /\ (AllIdle /\ (\E w \in Workers : visited[w] # <<>>))
          => IF state # LT9211C_STATE_CHIPTX_VIDEO_OUT
             THEN queued = 1 /\ pendingBit
             ELSE queued = 0 /\ ~pendingBit

C3_Witness ==
    \E w \in Workers : /\ pc[w] = Idle
                       /\ failedAt[w] = {LT9211C_STATE_CHIPTX_CONFIG_VIDEO}
                       /\ nsched[w] = 1
                       /\ queued = 1

(* C4: a failing InputTimingConfig attempt moves the state to Prepare
   exactly when the counter after that attempt's increment exceeds 30 and
   the probed format is not 0x0A; otherwise the state stays
   InputTimingConfig. *)
C4_PrepareOnlyPastThirty ==
    [][\A w \in Workers :
          (pc[w] = LT9211C_STATE_CHIPRX_VIDTIMING_CONFIG /\ pc'[w] = Idle)
          => /\ state' = LT9211C_STATE_PREPARE
                  <=> (counter + 1 > 30 /\ rx'.fmt # 10)
             /\ state' # LT9211C_STATE_PREPARE
                  => state' = LT9211C_STATE_CHIPRX_VIDTIMING_CONFIG]_vars

C4_Witness ==
    \E w \in Workers : /\ pc[w] = Idle
                       /\ failedAt[w] = {LT9211C_STATE_CHIPRX_VIDTIMING_CONFIG}
                       /\ counter = 31
                       /\ state = LT9211C_STATE_PREPARE

(* C5 as stated: whenever the latest InputTimingConfig attempt, failing or
   succeeding, probed format 0x0A, the counter is 0 when the machine next
   enters InputTimingConfig. *)
C5_ZeroAfterAnyRGB8Attempt ==
    \A w \in Workers :
        (pc[w] = LT9211C_STATE_CHIPRX_VIDTIMING_CONFIG /\ lastFmt = 10)
        => counter = 0

(* C5 amended: whenever the latest InputTimingConfig attempt failed and
   probed format 0x0A, the counter is 0 when the machine next enters
   InputTimingConfig; a succeeding attempt leaves the counter as it was. *)
C5_ZeroAfterFailingRGB8Attempt ==
    /\ [](\A w \in Workers :
            (pc[w] = LT9211C_STATE_CHIPRX_VIDTIMING_CONFIG
               /\ lastFmt = 10 /\ ~lastVidOk)
            => counter = 0)
    /\ [][\A w \in Workers :
            (pc[w] = LT9211C_STATE_CHIPRX_VIDTIMING_CONFIG
               /\ pc'[w] = LT9211C_STATE_CHIPRX_PLL_CONFIG)
            => counter' = counter]_vars

C5_Witness ==
    \E w \in Workers : /\ pc[w] = LT9211C_STATE_CHIPRX_VIDTIMING_CONFIG
                       /\ visited[w] = <<>>
                       /\ lastFmt = 10
                       /\ ~lastVidOk
                       /\ counter = 0

(* C6: at most one invocation of the handler executes at any time, under
   every interleaving of bridge enable and disable. *)
C6_AtMostOneInvocation ==
    Cardinality({w \in Workers : pc[w] # Idle}) <= 1

(* C7: once the bridge is detached or the driver removed, no invocation of
   the handler is pending or running. *)
C7_NoWorkAfterTeardown ==
    life \in {"detached", "removed"} => (queued = 0 /\ AllIdle)

Done ==
    /\ state = LT9211C_STATE_CHIPTX_VIDEO_OUT
    /\ AllIdle
    /\ queued = 0
    /\ ~pendingBit

(* C8: under fair scheduling of queued invocations, once the bridge has been
   enabled and every stage succeeds from then on, the machine eventually
   reaches OutputVideoOut with nothing pending and stays there, whatever
   failures came before. *)
C8_EventuallyVideoOut ==
    (settled /\ nEnable > 0) ~> []Done

C8_Witness ==
    /\ settled
    /\ Done
    /\ visited[1] = <<LT9211C_STATE_CHIPTX_CONFIG_VIDEO,
                      LT9211C_STATE_CHIPTX_VIDEO_OUT>>

(* C9 as stated: the machine never stays in InputTimingConfig forever; if
   the attempts keep failing it eventually returns to Prepare. *)
C9_NeverStuckInVidTiming ==
    []<>(state # LT9211C_STATE_CHIPRX_VIDTIMING_CONFIG)

(* C9 amended: the machine never stays in InputTimingConfig forever with
   attempts that keep failing on a probed format other than 0x0A; it
   eventually returns to Prepare.  Attempts that probe 0x0A clear the
   counter and may keep it in InputTimingConfig. *)
C9_ReturnsToPrepareUnlessRGB8 ==
    []<>(state # LT9211C_STATE_CHIPRX_VIDTIMING_CONFIG \/ lastFmt = 10)

C9_Witness ==
    /\ state = LT9211C_STATE_PREPARE
    /\ AllIdle
    /\ queued = 1
    /\ lastFmt = 3
    /\ ~lastVidOk
    /\ nsched[1] = 1

----------------------------------------------------------------------------
(* Properties of the mode matcher *)

Qualifies(i, hact, vact, rate) ==
    /\ lt9211c_support_timing[i].hactive = hact
    /\ lt9211c_support_timing[i].vactive = vact
    /\ rate - lt9211c_support_timing[i].framerate \in -3..3

(* C10: for every probed active size and measured rate in 0..255 the matcher
   selects the first table record whose active width and height are equal
   and whose nominal rate differs from the measured rate by at most 3, and
   reports no match exactly when no record qualifies; so 1920x1080 at 59 Hz
   selects the 60 Hz record and 100x100 selects none. *)
C10_FirstQualifyingRecord ==
    result # <<>> =>
        LET res == result[1]
            Q == {i \in 1..support_timing_array_size :
                     Qualifies(i, call.hact, call.vact, call.rate)}
        IN /\ IF Q = {}
              THEN res.index = 0 /\ res.ret = -ENOPARAM
              ELSE /\ res.index \in Q
                   /\ \A j \in Q : res.index <= j
                   /\ res.ret = 0
                   /\ res.vt.hactive = call.hact
                   /\ res.vt.vactive = call.vact
                   /\ res.vt.htotal = lt9211c_support_timing[res.index].htotal
           /\ (call.hact = 1920 /\ call.vact = 1080 /\ call.rate = 59)
                 => lt9211c_support_timing[res.index].framerate = 60
           /\ (call.hact = 100 /\ call.vact = 100) => res.ret = -ENOPARAM

C10_Witness ==
    /\ result # <<>>
    /\ call.hact = 1920 /\ call.vact = 1080 /\ call.rate = 57
    /\ result[1].ret = 0
    /\ lt9211c_support_timing[result[1].index].framerate = 60

(* C11 as stated: on every successful match the resolved pixel clock is
   h-total * v-total * measured frame rate / 1000. *)
C11_PclkFromMeasuredRate ==
    (result # <<>> /\ call.fn = "video_timing_sel" /\ result[1].ret = 0) =>
        result[1].vt.pclk_khz =
            (result[1].vt.htotal * result[1].vt.vtotal * call.rate) \div 1000

(* C11 amended: on every successful match the resolved pixel clock is
   h-total * v-total * nominal rate of the matched record / 1000, whatever
   rate within the window was measured; the measured rate is kept only in
   the framerate field of the resolved timing. *)
C11_PclkFromNominalRate ==
    (result # <<>> /\ call.fn = "video_timing_sel" /\ result[1].ret = 0) =>
        LET t == lt9211c_support_timing[result[1].index] IN
        /\ result[1].vt.pclk_khz = (t.htotal * t.vtotal * t.framerate) \div 1000
        /\ result[1].vt.framerate = call.rate
        /\ (call.hact = 1920 /\ call.vact = 1080 /\ call.rate \in 57..63)
              => result[1].vt.pclk_khz = 148500

C11_Witness ==
    /\ result # <<>>
    /\ call.fn = "video_timing_sel"
    /\ call.hact = 1920 /\ call.vact = 1080 /\ call.rate = 59
    /\ result[1].ret = 0
    /\ result[1].vt.pclk_khz = 148500
    /\ result[1].vt.framerate = 59

----------------------------------------------------------------------------
(* Properties of the stages inside the state machine *)

NoSignal(r) == r.hact < 400 \/ r.vact < 400

(* C12: an InputTimingConfig attempt fails with NoSignal (-EPROBE_DEFER)
   exactly when the probed active-pixel count or active-line count is below
   400; such an attempt runs the probe only (no frame-rate measurement, no
   timing registers programmed, the resolved timing untouched) and is
   handled as an InputTimingConfig failure: counted, rescheduled, returned. *)
C12_NoSignalSkipsMatcher ==
    [][\A w \in Workers :
          (pc[w] = LT9211C_STATE_CHIPRX_VIDTIMING_CONFIG /\ pc'[w] # pc[w])
          => /\ (hist'.cfg.ret = -EPROBE_DEFER) <=> NoSignal(rx')
             /\ NoSignal(rx')
                  => /\ hist'.cfg.calls = <<"lt9211c_mipi_rx_video_timing_get">>
                     /\ vt' = vt
                     /\ pc'[w] = Idle
                     /\ failedAt'[w] = {LT9211C_STATE_CHIPRX_VIDTIMING_CONFIG}
                     /\ nsched'[w] = nsched[w] + 1
                     /\ counter' = IF rx'.fmt = 10 THEN 0 ELSE counter + 1
             /\ ~NoSignal(rx')
                  => hist'.cfg.calls[2] = "lt9211c_video_check_framerate_get"]_vars

C12_Witness ==
    /\ rx.hact = 399
    /\ rx.vact = 1080
    /\ hist.cfg.ret = -EPROBE_DEFER
    /\ hist.cfg.calls = <<"lt9211c_mipi_rx_video_timing_get">>
    /\ failedAt[1] = {LT9211C_STATE_CHIPRX_VIDTIMING_CONFIG}
    /\ pc[1] = Idle

(* The factor of each format code: active pixels = wc * num / den. *)
FormatFactor(fmt) ==
    CASE fmt \in {1, 14}     -> [num |-> 5,  den |-> 2]
      [] fmt \in {2, 6, 10}  -> [num |-> 1,  den |-> 3]
      [] fmt \in {3, 7}      -> [num |-> 1,  den |-> 2]
      [] fmt = 4             -> [num |-> 15, den |-> 4]
      [] fmt = 5             -> [num |-> 9,  den |-> 2]
      [] fmt \in {8, 9}      -> [num |-> 9,  den |-> 4]
      [] fmt = 11            -> [num |-> 1,  den |-> 1]
      [] fmt = 12            -> [num |-> 5,  den |-> 4]
      [] fmt = 13            -> [num |-> 3,  den |-> 2]
      [] OTHER               -> [num |-> 1,  den |-> 3]

(* C13: for every 16-bit word count and every 4-bit format code the probed
   active-pixel count is floor(wc * num / den) with the code's factor, the
   codes 0x00 and 0x0F using the 24-bpp factor 1/3. *)
C13_HactIsScaledWordCount ==
    (result # <<>> /\ call.fn = "hact_get") =>
        result[1] = (call.wc * FormatFactor(call.fmt).num)
                        \div FormatFactor(call.fmt).den

(* derived = pixel_clock_khz * divider / 25, M = derived / 1000,
   K = (derived mod 1000) << 14, limits M + 1 and M - 1. *)
PcrFormula(p, pclk_khz) ==
    LET derived == (pclk_khz * p.div) \div 25 IN
    /\ p.pcr_m = derived \div 1000
    /\ p.pcr_k = (derived % 1000) * (2 ^ 14)
    /\ p.pcr_up_limit = p.pcr_m + 1
    /\ p.pcr_down_limit = p.pcr_m - 1

(* C14 as stated: the clock-recovery parameters computed for a resolved
   pixel clock and the divider chosen for it follow the formula, and
   pixel clock 148500 goes with divider 2, giving M = 11, K = 14417920 and
   limits 12 and 10. *)
C14_PcrParamsDivider2Example ==
    Len(result) = 2 =>
        /\ PcrFormula(result[2], result[1].vt.pclk_khz)
        /\ result[1].vt.pclk_khz = 148500
              => /\ result[2].div = 2
                 /\ result[2].pcr_m = 11
                 /\ result[2].pcr_k = 14417920
                 /\ result[2].pcr_up_limit = 12
                 /\ result[2].pcr_down_limit = 10

(* C14 amended: the clock-recovery parameters computed for a resolved pixel
   clock and the divider chosen for it follow the formula; the divider
   chosen for pixel clock 148500 is 4 (band >= 88000), giving derived 23760,
   M = 23, K = 760 << 14 = 12451840 and limits 24 and 22. *)
C14_PcrParamsChosenDivider ==
    Len(result) = 2 =>
        /\ PcrFormula(result[2], result[1].vt.pclk_khz)
        /\ result[2].div \in {2, 4, 8, 16}
        /\ result[1].vt.pclk_khz = 148500
              => /\ result[2].div = 4
                 /\ result[2].pcr_m = 23
                 /\ result[2].pcr_k = 12451840
                 /\ result[2].pcr_up_limit = 24
                 /\ result[2].pcr_down_limit = 22

C14_Witness ==
    /\ Len(result) = 2
    /\ call.hact = 1920 /\ call.vact = 1080 /\ call.rate = 60
    /\ result[1].vt.pclk_khz = 148500
    /\ result[2].pcr_m = 23

----------------------------------------------------------------------------
(* Properties of mode enumeration *)

(* 1920x1080 at 148.5 MHz over 2200x1125 totals, i.e. 60 Hz *)
IsDefaultMode(m) ==
    /\ m.mode.hdisplay = 1920 /\ m.mode.vdisplay = 1080
    /\ m.mode.htotal = 2200 /\ m.mode.vtotal = 1125
    /\ m.mode.clock = 148500
    /\ m.mode.clock * 1000 = m.mode.htotal * m.mode.vtotal * 60

(* C15 as stated: in every reachable state mode enumeration returns exactly
   one mode, the fixed 1920x1080 default, and no action of the state
   machine changes the published mode. *)
C15_AlwaysExactlyTheDefaultMode ==
    /\ videomode = videomode_from_timing(lt9211c_default_timing)
    /\ enumerated # <<>> =>
          /\ enumerated[1].ret = 1
          /\ Len(enumerated[1].modes) = 1
          /\ IsDefaultMode(enumerated[1].modes[1])

(* C15 amended: in every reachable state mode enumeration returns either
   exactly one mode, the fixed 1920x1080 default, or (when no mode object
   can be allocated) no mode at all; no action of the state machine,
   a successful match of another resolution included, changes the
   published mode. *)
C15_DefaultModeOrNone ==
    /\ videomode = videomode_from_timing(lt9211c_default_timing)
    /\ enumerated # <<>> =>
          \/ /\ enumerated[1].ret = 1
             /\ Len(enumerated[1].modes) = 1
             /\ IsDefaultMode(enumerated[1].modes[1])
          \/ /\ enumerated[1].ret = 0
             /\ enumerated[1].modes = <<>>

C15_Witness ==
    /\ enumerated # <<>>
    /\ enumerated[1].ret = 1
    /\ IsDefaultMode(enumerated[1].modes[1])
    /\ vt.hactive = 1280 /\ vt.vactive = 720
    /\ state = LT9211C_STATE_CHIPTX_VIDEO_OUT

(* C16: stages run only in pipeline order.  The clock recovery engine runs
   only after a successful mode match, the output PLL engine only after a
   clock-recovery calibration has succeeded since the last Prepare, and the
   output formatter only after the output PLL engine has reported lock. *)
C16_StagesInPipelineOrder ==
    \A w \in Workers :
        /\ pc[w] = LT9211C_STATE_CHIPRX_PLL_CONFIG
              => /\ lastVidOk
                 /\ hist.cfg.ret >= 0
                 /\ hist.cfg.calls[Len(hist.cfg.calls)] = "lt9211c_mipi_rx_video_timing_set"
        /\ pc[w] = LT9211C_STATE_CHIPTX_CONFIG_VIDEO => hist.pcrOk
        /\ pc[w] = LT9211C_STATE_CHIPTX_VIDEO_OUT => (hist.pcrOk /\ hist.txLock)

C16_Witness ==
    /\ pc[1] = LT9211C_STATE_CHIPTX_VIDEO_OUT
    /\ visited[1] = <<LT9211C_STATE_CHIPTX_CONFIG_VIDEO>>
    /\ lastVidOk
    /\ hist.pcrOk
    /\ hist.txLock

(* C17: the retry counter one device's state machine uses is written only by
   that device: whenever the device is about to run InputTimingConfig, the
   counter holds what the device's own failures, Prepare and stability spin
   left in it, whatever a second device has done meanwhile. *)
C17_CounterOwnedByDevice ==
    \A w \in Workers :
        pc[w] = LT9211C_STATE_CHIPRX_VIDTIMING_CONFIG => counter = hist.own

----------------------------------------------------------------------------
(* Properties of the clock-recovery calibration *)

(* The calibration has returned. *)
PcrReturned == call.fn = "pcr_calibration" /\ Len(result) = 1

(* The status reads the loop can make before it gives up: it gives up on
   the read made with pcr_cal_count = 51, the counter starting at 0. *)
PcrPollLimit == 52

(* What the calibration returns when the stable bits first show on read
   number stableAt, under a limit of so many status polls. *)
PcrOutcome(limit) ==
    IF call.stableAt \in 1..limit
    THEN /\ result[1].polls = call.stableAt
         /\ ~call.readErr => result[1].ret = 0
    ELSE /\ result[1].ret = -ENOPARAM
         /\ result[1].polls <= limit

(* C18, as stated: the calibration returns success as soon as a status
   read shows both stable bits, and otherwise fails with -ENOPARAM after
   at most 51 status polls. *)
C18_UnstableWithin51Polls ==
    PcrReturned => PcrOutcome(51) /\ result[1].polls <= 51

(* C18, amended: the calibration returns as soon as a status read shows
   both stable bits, with success when that read went through, and
   otherwise fails with -ENOPARAM after exactly 52 status polls. *)
C18_UnstableWithin52Polls ==
    PcrReturned =>
        /\ PcrOutcome(PcrPollLimit)
        /\ result[1].polls <= PcrPollLimit
        /\ result[1].ret = -ENOPARAM => result[1].polls = PcrPollLimit

(* The stable bits first show on the 52nd read, the last one the loop
   makes, and the calibration succeeds. *)
C18_Witness ==
    /\ PcrReturned
    /\ call.stableAt = 52 /\ ~call.readErr
    /\ result[1] = [ret |-> 0, polls |-> 52]

----------------------------------------------------------------------------
(* Properties of the spin on the video stability check *)

(* C19, as stated: the spin that follows a successful calibration makes at
   most 50 stability checks. *)
C19_SpinAtMost50Checks == hist.spin.checks <= 50

(* C19, amended: the spin that follows a successful calibration makes at
   most 51 stability checks, and makes all 51 when none of them reports
   stable. *)
C19_SpinAtMost51Checks ==
    /\ hist.spin.checks <= 51
    /\ hist.spin.checks > 0 /\ ~hist.spin.stable => hist.spin.checks = 51

(* A calibration succeeded and the spin gave up after 51 checks. *)
C19_Witness ==
    /\ hist.pcrOk
    /\ hist.spin.checks = 51
    /\ ~hist.spin.stable
    /\ counter = 51

(* C20: the outcome of the stability spin does not gate progression.  When
   the InputPllConfig block has run with lt9211c_mipi_rx_pll_config
   succeeding, the spin has been made, the state stored is OutputConfigVideo
   and the same invocation goes on into the OutputConfigVideo block,
   whether or not a stability check reported stable. *)
C20_SpinOutcomeDoesNotGate ==
    [][\A w \in DOMAIN pc :
          pc[w] = LT9211C_STATE_CHIPRX_PLL_CONFIG /\ pc'[w] # pc[w] /\ hist'.pllOk
          => /\ hist'.spin.checks >= 1
             /\ state' = LT9211C_STATE_CHIPTX_CONFIG_VIDEO
             /\ pc'[w] = LT9211C_STATE_CHIPTX_CONFIG_VIDEO
             /\ nsched' = nsched]_vars

(* An invocation stands in the OutputConfigVideo block right after a spin
   in which none of the 51 stability checks reported stable. *)
C20_Witness ==
    \E w \in DOMAIN pc :
        /\ pc[w] = LT9211C_STATE_CHIPTX_CONFIG_VIDEO
        /\ Last(visited[w]) = LT9211C_STATE_CHIPRX_PLL_CONFIG
        /\ state = LT9211C_STATE_CHIPTX_CONFIG_VIDEO
        /\ hist.pllOk
        /\ ~hist.spin.stable
        /\ hist.spin.checks = 51

----------------------------------------------------------------------------
(* Properties of the output PLL engine *)

(* The output PLL engine has returned. *)
TxReturned == call.fn = "lvds_tx_config_video" /\ Len(result) = 1

(* C21: the calibration issues at most 4 trigger pulses, and once a read
   has shown the done flag it issues no further one: with the flag first
   shown in round n of the four, exactly n pulses are issued. *)
C21_AtMostFourTriggers ==
    TxReturned =>
        /\ result[1].cal.triggers \in 1..4
        /\ call.doneAt \in 1..4 => result[1].cal.triggers = call.doneAt

(* The done flag shows in the second round and the calibration has
   returned after two pulses. *)
C21_Witness ==
    /\ TxReturned
    /\ call.doneAt = 2
    /\ result[1].cal.triggers = 2

(* C22: the output PLL engine's result is decided by the lock bit read
   after the calibration loop alone.  When the OutputConfigVideo block has
   run with the lock bit set, the invocation goes on into the VideoOut
   block; with the lock bit clear the block is not run again by that
   invocation: the state is left as it was, the work is queued once and the
   invocation returns.  Neither depends on the done flag. *)
C22_LockBitDecides ==
    [][\A w \in DOMAIN pc :
          pc[w] = LT9211C_STATE_CHIPTX_CONFIG_VIDEO /\ pc'[w] # pc[w]
          => IF hist'.txLock
             THEN /\ pc'[w] = LT9211C_STATE_CHIPTX_VIDEO_OUT
                  /\ state' = LT9211C_STATE_CHIPTX_VIDEO_OUT
                  /\ nsched'[w] = nsched[w]
             ELSE /\ pc'[w] = Idle
                  /\ state' = state
                  /\ nsched'[w] = nsched[w] + 1
                  /\ failedAt'[w] = {LT9211C_STATE_CHIPTX_CONFIG_VIDEO}]_vars

(* The done flag was seen, the lock bit was clear, and the invocation has
   returned from the OutputConfigVideo block with the state still
   OutputConfigVideo. *)
C22_Witness ==
    \E w \in DOMAIN pc :
        /\ pc[w] = Idle
        /\ failedAt[w] = {LT9211C_STATE_CHIPTX_CONFIG_VIDEO}
        /\ state = LT9211C_STATE_CHIPTX_CONFIG_VIDEO
        /\ hist.txDone
        /\ ~hist.txLock
        /\ nsched[w] = 1

----------------------------------------------------------------------------
(* Properties of the clock-recovery divider selection *)

DesscReturned == call.fn = "dessc_pll_div" /\ Len(result) = 1

(* C23: the divider is 2 from 176000 kHz up (two bands), 4 from 88000, 8
   from 44000 and 16 below, each band including its lower bound, and the
   extra divide-by-2 stage is enabled exactly below 22000 kHz. *)
C23_DividerBands ==
    DesscReturned =>
        LET p == call.pclk
            d == result[1].div
        IN /\ p >= 176000 => d = 2
           /\ p >= 88000 /\ p < 176000 => d = 4
           /\ p >= 44000 /\ p < 88000 => d = 8
           /\ p < 44000 => d = 16
           /\ result[1].lowf <=> p < 22000

(* The lower bound of a band takes the divider of that band, and the
   lowest band's upper neighbour does not enable the extra stage. *)
C23_Witness ==
    /\ DesscReturned
    /\ call.pclk = 22000
    /\ result[1] = [div |-> 16, lowf |-> FALSE]

----------------------------------------------------------------------------
(* Properties of the registers of the clock-recovery engine *)

(* The first status poll of the calibration is about to be made. *)
PollingBegins == call.fn = "pll_config_regs" /\ Len(result) = 1

(* C24, as stated: when polling begins, the modulator registers of page
   0xD0 hold the values computed for the pixel clock: 0x2D = M + 1,
   0x31 = M - 1, 0x26 = M and 0x27..0x29 the three bytes of K. *)
C24_ModulatorHoldsComputedValues ==
    PollingBegins =>
        LET s == lt9211c_mipi_rx_dessc_pll_set(call.pclk)
            chip == result[1]
        IN /\ Holds(chip, \hd0, \h2d) = s.pcr_m + 1
           /\ Holds(chip, \hd0, \h31) = s.pcr_m - 1
           /\ Holds(chip, \hd0, \h26) = s.pcr_m
           /\ Holds(chip, \hd0, \h27) = (s.pcr_k \div 65536) % 256
           /\ Holds(chip, \hd0, \h28) = (s.pcr_k \div 256) % 256
           /\ Holds(chip, \hd0, \h29) = s.pcr_k % 256

(* What the registers do hold when polling begins: the constants of the
   calibration sequence, and of the computed values only the two low
   bytes of K. *)
ModulatorAtPolling ==
    PollingBegins =>
        LET s == lt9211c_mipi_rx_dessc_pll_set(call.pclk)
            chip == result[1]
        IN /\ Holds(chip, \hd0, \h2d) = \h30
           /\ Holds(chip, \hd0, \h31) = \h0a
           /\ Holds(chip, \hd0, \h26) = \h17
           /\ Holds(chip, \hd0, \h27) = \h0f
           /\ Holds(chip, \hd0, \h28) = (s.pcr_k \div 256) % 256
           /\ Holds(chip, \hd0, \h29) = s.pcr_k % 256

(* C25: the pre-divider is 1 below 40000 kHz (two bands), 2 below 80000,
   4 below 160000, 8 below 320000 and 16 from there up, and so never
   decreases as the pixel clock grows. *)
C25_PreDividerBands ==
    TxReturned =>
        LET p == call.pclk
            d == result[1].pll.pre_div
        IN /\ p < 40000 => d = 1
           /\ p >= 40000 /\ p < 80000 => d = 2
           /\ p >= 80000 /\ p < 160000 => d = 4
           /\ p >= 160000 /\ p < 320000 => d = 8
           /\ p >= 320000 => d = 16
           /\ \A q \in TxClocks : q <= p => lvds_tx_pre_div(q) <= d

(* The first clock of the last band has been configured with 16. *)
C25_Witness ==
    /\ TxReturned
    /\ call.pclk = 320000
    /\ result[1].pll.pre_div = 16

(* C26: phy-clock is pclk * 7 / 2 and the serial-clock divider is 1 from
   a phy-clock of 640000 up, 2 from 320000, 4 from 160000, 8 from 80000 and
   16 below, and so never increases as the phy-clock grows. *)
C26_SerialDividerBands ==
    TxReturned =>
        LET phy == result[1].pll.lvds_tx_phy_clk
            d == result[1].pll.serial_clk_div
        IN /\ phy = (call.pclk * 7) \div 2
           /\ phy >= 640000 => d = 1
           /\ phy >= 320000 /\ phy < 640000 => d = 2
           /\ phy >= 160000 /\ phy < 320000 => d = 4
           /\ phy >= 80000 /\ phy < 160000 => d = 8
           /\ phy < 80000 => d = 16
           /\ \A q \in TxClocks :
                 lvds_tx_phy_clk(q) <= phy
                 => lvds_tx_serial_clk_div(lvds_tx_phy_clk(q)) >= d

(* The smallest pixel clock whose phy-clock reaches 80000 has been
   configured with 8. *)
C26_Witness ==
    /\ TxReturned
    /\ call.pclk = 22858
    /\ result[1].pll.lvds_tx_phy_clk = 80003
    /\ result[1].pll.serial_clk_div = 8

----------------------------------------------------------------------------
(* Properties of page selection *)

FirstAccessMade == call.fn = "first_access" /\ Len(result) = 1

(* C27: every register routine selects a page before its first register
   read or write: its first operation is a write of the page register, and
   the page in force at its first access is that page, whichever page was
   selected on entry. *)
C27_PageSelectedBeforeFirstAccess ==
    FirstAccessMade =>
        LET ops == RoutineOps[call.routine] IN
        /\ ops[1][1] = "w" /\ ops[1][2] = \hff
        /\ result[1] = ops[1][3]
        /\ \A q \in Pages : FirstAccessPage(LeadingOps(call.routine), q) = result[1]

(* The output PLL calibration, entered with page 0xD0 selected, makes its
   first access on page 0x81. *)
C27_Witness ==
    /\ FirstAccessMade
    /\ call.routine = "lt9211c_lvds_tx_pll_calibration"
    /\ call.page = \hd0
    /\ result[1] = \h81

(* C28, as stated: when polling begins, the delay registers 0x0C and 0x1C
   of page 0xD0 hold the selected delay, and the calibration has written
   nothing to register 0x0C of page 0x81. *)
C28_DelayWrittenOnPageD0 ==
    PollingBegins =>
        LET chip == result[1] IN
        /\ Holds(chip, \hd0, \h0c) = pcr_delay(call.pclk, call.burst)
        /\ Holds(chip, \hd0, \h1c) = pcr_delay(call.pclk, call.burst)
        /\ ~Written(chip, \h81, \h0c)

(* Where the selected delay is when polling begins: in registers 0x0C and
   0x1C of page 0x81, the page left selected by the sequence written
   before; page 0xD0 keeps the fifo-position defaults. *)
DelayAtPolling ==
    PollingBegins =>
        LET chip == result[1] IN
        /\ Holds(chip, \hd0, \h0c) = \h60
        /\ Holds(chip, \hd0, \h1c) = \h60
        /\ Holds(chip, \h81, \h0c) = pcr_delay(call.pclk, call.burst)
        /\ Holds(chip, \h81, \h1b) = \h00
        /\ Holds(chip, \h81, \h1c) = pcr_delay(call.pclk, call.burst)

----------------------------------------------------------------------------
(* Properties of transport errors *)

(* C29, as stated: a transport error on one register operation does not
   change the transition a stage takes.  So an InputTimingConfig attempt
   whose matcher resolved a record and programmed it goes on to
   InputPllConfig whatever the register writes reported, and an
   InputPllConfig attempt whose calibration succeeded goes on to
   OutputConfigVideo whatever the source selection after it reported. *)
C29_TransportErrorKeepsTransition ==
    [][\A w \in DOMAIN pc :
          /\ ( /\ pc[w] = LT9211C_STATE_CHIPRX_VIDTIMING_CONFIG
               /\ pc'[w] # pc[w]
               /\ Len(hist'.cfg.calls) = 3 )
             => /\ pc'[w] = LT9211C_STATE_CHIPRX_PLL_CONFIG
                /\ state' = LT9211C_STATE_CHIPRX_PLL_CONFIG
          /\ ( /\ pc[w] = LT9211C_STATE_CHIPRX_PLL_CONFIG
               /\ pc'[w] # pc[w]
               /\ ~hist.pcrOk /\ hist'.pcrOk )
             => /\ pc'[w] = LT9211C_STATE_CHIPTX_CONFIG_VIDEO
                /\ state' = LT9211C_STATE_CHIPTX_CONFIG_VIDEO]_vars

----------------------------------------------------------------------------
(* Properties of the frame-rate conversion *)

RateReturned == call.fn = "framerate_get" /\ Len(result) = 1

(* 25000000 / frametime rounded to the nearest integer. *)
TrueRate(frametime) == ((2 * 25000000) \div frametime + 1) \div 2

(* C30, as stated: for every non-zero 24-bit frame-time counter value the
   rate handed to the matcher is 25000000 / frametime rounded to the
   nearest integer, and a frame time whose true rate is outside the +-3
   window of a table record is not reported as a rate inside it. *)
C30_RateIsRoundedQuotient ==
    RateReturned =>
        /\ result[1] = TrueRate(call.frametime)
        /\ \A i \in 1..support_timing_array_size :
              TrueRate(call.frametime) - lt9211c_support_timing[i].framerate \notin -3..3
              => result[1] - lt9211c_support_timing[i].framerate \notin -3..3

(* What does hold: the rate handed on is the rounded quotient modulo 256,
   when the read buffer's upper bytes are clear. *)
RateIsTruncatedQuotient ==
    RateReturned /\ call.junk = 0 => result[1] = TrueRate(call.frametime) % 256

----------------------------------------------------------------------------
(* Properties of the retry counter *)

(* C31, as stated: the machine goes from InputTimingConfig back to Prepare
   only after more than 30 failing InputTimingConfig attempts in a row,
   a successful attempt restarting the count. *)
C31_PrepareAfterThirtyConsecutive ==
    [][\A w \in DOMAIN pc :
          ( /\ pc[w] = LT9211C_STATE_CHIPRX_VIDTIMING_CONFIG
            /\ pc'[w] = Idle
            /\ state = LT9211C_STATE_CHIPRX_VIDTIMING_CONFIG
            /\ state' = LT9211C_STATE_PREPARE )
          => hist'.consec > 30]_vars

(* An invocation starts (worker w leaves Idle) or returns (w comes back to Idle). *)
InvocationStarts(w) == pc[w] = Idle /\ pc'[w] # Idle

InvocationReturns(w) == pc[w] # Idle /\ pc'[w] = Idle

(* C32, as stated: with a single device, the counter is between 0 and 30 at
   every point where an invocation starts or returns with the state
   InputTimingConfig, and between 0 and 51 in every reachable state. *)
C32_CounterRanges ==
    /\ [](counter \in 0..51)
    /\ [][\A w \in DOMAIN pc :
            /\ (InvocationStarts(w) /\ state = LT9211C_STATE_CHIPRX_VIDTIMING_CONFIG)
                  => counter \in 0..30
            /\ (InvocationReturns(w) /\ state' = LT9211C_STATE_CHIPRX_VIDTIMING_CONFIG)
                  => counter' \in 0..30]_vars

(* C33, as stated: no arithmetic step of the output PLL divider computation
   divides by zero, for any pixel clock the 20-bit frequency meter can
   return, 0 and the values below the pre-divider included. *)
C33_NoDivisionByZero ==
    TxReturned => ~result[1].pll.div0

(* The totals of a timing are the sums of its porches, sync and active part. *)
TotalsAreSums(t) ==
    /\ t.htotal = t.hfront_porch + t.hsync_len + t.hback_porch + t.hactive
    /\ t.vtotal = t.vfront_porch + t.vsync_len + t.vback_porch + t.vactive

(* C34, as stated: in every record of the timing table, and so in every
   timing the matcher resolves, h-total = hfp + hsync + hbp + hactive and
   v-total = vfp + vsync + vbp + vactive. *)
C34_TableTotalsConsistent ==
    /\ \A i \in 1..support_timing_array_size : TotalsAreSums(lt9211c_support_timing[i])
    /\ (result # <<>> /\ call.fn = "video_timing_sel" /\ result[1].ret = 0)
          => TotalsAreSums(result[1].vt)

(* The records the scan loop would stop at for the probed size and the
   measured rate of the call: neither "continue" condition holds. *)
QualifyingRecords ==
    {i \in 1..support_timing_array_size :
        /\ ~ResolutionNotMatch([hact |-> call.hact, vact |-> call.vact], i)
        /\ ~FrameRateNotMatch(call.rate, i)}

(* C35: the table is unambiguous: for every probed active size and every
   measured rate in 0..255, all the records that qualify hold identical
   field values, so the record the matcher stops at resolves the same
   timing as any other qualifying one would. *)
C35_TableUnambiguous ==
    (result # <<>> /\ call.fn = "video_timing_sel") =>
        /\ \A i, j \in QualifyingRecords :
              lt9211c_support_timing[i] = lt9211c_support_timing[j]
        /\ \A i \in QualifyingRecords :
              result[1].vt = ResolvedTiming(i, call.rate)

(* 1280x720 at 30 Hz has been matched: two records qualify, the first was
   taken. *)
C35_Witness ==
    /\ result # <<>>
    /\ call.fn = "video_timing_sel"
    /\ call.hact = 1280 /\ call.vact = 720 /\ call.rate = 30
    /\ QualifyingRecords = {5, 10}
    /\ result[1].index = 5

(* The clock-recovery parameters of a resolved timing have been computed. *)
PcrSettingComputed ==
    call.fn = "video_timing_sel" /\ Len(result) = 2

(* C36: for every timing the matcher resolves from the table, the
   clock-recovery multiplier M lies in 14..28, so the down-limit M - 1 does
   not wrap below zero and M fits the 7-bit field of register 0x26. *)
C36_MultiplierWithin14To28 ==
    PcrSettingComputed =>
        /\ result[2].pcr_m \in 14..28
        /\ result[2].pcr_down_limit = result[2].pcr_m - 1
        /\ result[2].pcr_down_limit >= 0
        /\ result[2].pcr_m < 128
        /\ result[2].pcr_m =
              ((result[1].vt.pclk_khz * result[2].div) \div 25) \div 1000

(* The smallest multiplier: 1920x720 at 60 Hz, 93600 kHz with divider 4,
   has been computed as 14. *)
C36_Witness ==
    /\ PcrSettingComputed
    /\ call.hact = 1920 /\ call.vact = 720
    /\ result[1].vt.pclk_khz = 93600
    /\ result[2].div = 4
    /\ result[2].pcr_m = 14

(* C37: an InputTimingConfig attempt that ends in NoMatch (-ENOPARAM)
   leaves the previously resolved timing, pixel clock included, exactly as
   it was, and does not run lt9211c_mipi_rx_video_timing_set: no timing
   register of the input front end is written in that attempt. *)
C37_NoMatchLeavesTiming ==
    [][\A w \in Workers :
          ( /\ pc[w] = LT9211C_STATE_CHIPRX_VIDTIMING_CONFIG
            /\ pc'[w] # pc[w]
            /\ hist'.cfg.ret = -ENOPARAM )
          => /\ vt' = vt
             /\ hist'.cfg.calls = <<"lt9211c_mipi_rx_video_timing_get",
                                    "lt9211c_video_check_framerate_get">>
             /\ \A k \in DOMAIN hist'.cfg.calls :
                   hist'.cfg.calls[k] # "lt9211c_mipi_rx_video_timing_set"]_vars

(* A timing had been resolved, and a later attempt ended in NoMatch with
   that timing still in place. *)
C37_Witness ==
    /\ hist.cfg.ret = -ENOPARAM
    /\ vt # ZeroVideoTiming
    /\ vt.pclk_khz > 0
    /\ ~NoSignal(rx)
    /\ \E w \in Workers : failedAt[w] = {LT9211C_STATE_CHIPRX_VIDTIMING_CONFIG}

(* C38: for every measured pixel clock from 150000 kHz up to the largest
   20-bit reading, the ratio phy_clock * serial_div * 2 / (pclk * 7) is at
   most 2, so register 0x33 always gets the divide-by-7 selection; /14,
   /28 and /56 are never selected. *)
C38_AlwaysDivideBySeven ==
    (TxReturned /\ call.pclk >= 150000) =>
        LET pll == result[1].pll IN
        /\ pll.pixel_clk_div =
              (pll.lvds_tx_phy_clk * pll.serial_clk_div * 2) \div (call.pclk * 7)
        /\ pll.pixel_clk_div <= 2
        /\ pll.reg33 = 0

(* The first clock of the computed branch has been configured: serial
   divider 2, ratio exactly 2. *)
C38_Witness ==
    /\ TxReturned
    /\ call.pclk = 150000
    /\ result[1].pll.serial_clk_div = 2
    /\ result[1].pll.pixel_clk_div = 2
    /\ result[1].pll.reg33 = 0

(* C39: for every non-zero 20-bit pixel clock, div_set = phy_clock *
   serial_div / (pclk / pre_div) is at most 255, so the stored 8-bit value
   is the quotient itself, and every intermediate product is at most
   7 * 2^20, far below 2^32. *)
C39_DivSetFitsEightBits ==
    (TxReturned /\ call.pclk > 0) =>
        LET pll == result[1].pll
            quotient == (pll.lvds_tx_phy_clk * pll.serial_clk_div)
                           \div (call.pclk \div pll.pre_div)
        IN /\ ~pll.div0
           /\ quotient <= 255
           /\ pll.div_set = quotient
           /\ call.pclk * 7 <= 7 * 1048576
           /\ pll.lvds_tx_phy_clk * pll.serial_clk_div * 2 <= 7 * 1048576

(* The largest quotient, 56, has been stored for a clock of 2 kHz, and the
   largest 20-bit clock has been configured. *)
C39_Witness ==
    /\ TxReturned
    /\ \/ call.pclk = 2 /\ result[1].pll.div_set = 56
       \/ call.pclk = 1048575 /\ result[1].pll.div_set = 56
    /\ call.doneAt = 1
    /\ call.lock

============================================================================
